---- MODULE Spec2Model ----
(***************************************************************************)
(* google-docs-manager: the Markdown <-> Google Docs translation engine    *)
(* (internal/conversion), the structure extractor (internal/document) and  *)
(* the command handlers (internal/cli) that build BatchUpdate requests.    *)
(*                                                                         *)
(* A Go string is modelled as the sequence of its runes; a rune is a       *)
(* one-element TLA+ string, and "U+00E9" stands for the two-byte rune      *)
(* e-acute.  Byte offsets (what Go's len, slicing and regexp report) and   *)
(* rune offsets (what the Docs index space counts) are kept apart.         *)
(***************************************************************************)
EXTENDS Integers, Sequences, FiniteSets, TLC

VARIABLES
    cmd,          \* the operation that is running
    args,         \* its arguments
    doc,          \* the document held by the remote service (NoDoc: none)
    pc,           \* position in the running operation
    currentIndex, \* MarkdownToDocsRequests: the cursor
    requests,     \* the requests built so far
    calls,        \* the BatchUpdate calls made so far
    result        \* what the operation returned

vars == <<cmd, args, doc, pc, currentIndex, requests, calls, result>>

(***************************************************************************)
(* Bounds of the model.                                                    *)
(***************************************************************************)
MaxLen == 3
MaxSpans == 2

NoDoc == [none |-> TRUE]
NoArgs == [none |-> TRUE]
Running == [status |-> "running"]
Panic == [status |-> "panic"]

(***************************************************************************)
(* Strings: runes, bytes, slices.                                          *)
(***************************************************************************)
EAcute == "U+00E9"
EAcuteUpper == "U+00C9"

\* utf8 encoded length of one rune
ByteLen(r) == IF r \in {EAcute, EAcuteUpper} THEN 2 ELSE 1

RECURSIVE StrByteLen(_)
\* len(s): the byte length of a string
StrByteLen(s) == IF s = <<>> THEN 0 ELSE ByteLen(Head(s)) + StrByteLen(Tail(s))

\* byte offset at which rune k (1-based) of s starts; k = Len(s)+1 gives len(s)
ByteOff(s, k) == StrByteLen(SubSeq(s, 1, k - 1))

\* s[lo:hi] with lo, hi byte offsets on rune boundaries
SliceBytes(s, lo, hi) ==
    LET keep == {k \in 1..Len(s) : ByteOff(s, k) >= lo /\ ByteOff(s, k) < hi}
    IN  IF keep = {} THEN <<>>
        ELSE SubSeq(s, CHOOSE k \in keep : \A j \in keep : k <= j,
                       CHOOSE k \in keep : \A j \in keep : k >= j)

\* s[lo:hi] is evaluated without a run-time panic: 0 <= lo <= hi <= len(s)
SliceInRange(s, lo, hi) == 0 <= lo /\ lo <= hi /\ hi <= StrByteLen(s)

\* a plausible slip: len(s), the byte count, taken for the rune count
RuneCountAsByteLen(s) == StrByteLen(s)

\* utf8.RuneCountInString
RuneCountInString(s) == Len(s)

\* unicode.IsSpace on the runes of the model
IsSpace(r) == r \in {" ", "\t", "\n"}

RECURSIVE TrimLeft(_)
TrimLeft(s) == IF s # <<>> /\ IsSpace(Head(s)) THEN TrimLeft(Tail(s)) ELSE s

RECURSIVE TrimRight(_)
TrimRight(s) ==
    IF s # <<>> /\ IsSpace(s[Len(s)]) THEN TrimRight(SubSeq(s, 1, Len(s) - 1)) ELSE s

\* strings.TrimSpace
TrimSpace(s) == TrimRight(TrimLeft(s))

RECURSIVE SplitFrom(_, _, _)
SplitFrom(s, k, cur) ==
    IF k > Len(s) THEN <<cur>>
    ELSE IF s[k] = "\n" THEN <<cur>> \o SplitFrom(s, k + 1, <<>>)
    ELSE SplitFrom(s, k + 1, Append(cur, s[k]))

\* a plausible slip: the lines as a line scanner yields them, without the
\* empty line after a final newline
SplitLinesDropTrailing(s) ==
    LET lines == SplitFrom(s, 1, <<>>)
    IN  IF Len(lines) > 1 /\ lines[Len(lines)] = <<>>
        THEN SubSeq(lines, 1, Len(lines) - 1) ELSE lines

\* strings.Split(s, "\n")
SplitLines(s) == SplitFrom(s, 1, <<>>)

RECURSIVE Flatten(_)
\* concatenation of a sequence of strings
Flatten(ss) == IF ss = <<>> THEN <<>> ELSE Head(ss) \o Flatten(Tail(ss))

(***************************************************************************)
(* The two regular expressions of parseInlineFormatting.                   *)
(*   bold:   \*\*([^*]+)\*\*|__([^_]+)__      (n = 2)                      *)
(*   italic: \*([^*]+)\*|_([^_]+)_            (n = 1)                      *)
(* A match is Go's index tuple <<m0, m1, m2, m3, m4, m5>> of byte offsets, *)
(* -1 for the group of the alternative that did not take part.             *)
(***************************************************************************)
AllAre(s, from, n, ch) ==
    /\ from + n - 1 <= Len(s)
    /\ \A j \in from..(from + n - 1) : s[j] = ch

\* first position >= from holding ch, Len(s)+1 when there is none
FirstAt(s, from, ch) ==
    LET hits == {j \in from..Len(s) : s[j] = ch}
    IN  IF hits = {} THEN Len(s) + 1 ELSE CHOOSE j \in hits : \A h \in hits : j <= h

\* One alternative, ch{n}([^ch]+)ch{n}, tried at rune position i: the rune
\* position just after the match, 0 when it does not match there.  [^ch]+ is
\* greedy and cannot cross ch, so the content runs to the next ch.
AltEnd(s, i, n, ch) ==
    IF ~AllAre(s, i, n, ch) THEN 0
    ELSE LET close == FirstAt(s, i + n, ch)
         IN  IF close > i + n /\ AllAre(s, close, n, ch) THEN close + n ELSE 0

RECURSIVE FindFrom(_, _, _)
\* leftmost-first, non-overlapping matches from rune position i on
FindFrom(s, i, n) ==
    IF i > Len(s) THEN <<>>
    ELSE LET star == AltEnd(s, i, n, "*")
             under == AltEnd(s, i, n, "_")
             b(k) == ByteOff(s, k)
         IN  IF star # 0
               THEN <<<<b(i), b(star), b(i + n), b(star - n), -1, -1>>>>
                        \o FindFrom(s, star, n)
             ELSE IF under # 0
               THEN <<<<b(i), b(under), -1, -1, b(i + n), b(under - n)>>>>
                        \o FindFrom(s, under, n)
             ELSE FindFrom(s, i + 1, n)

\* regexp.FindAllStringSubmatchIndex(text, -1)
FindAllStringSubmatchIndex(n, text) == FindFrom(text, 1, n)

\* a plausible slip: the first group sliced whichever alternative matched
ContentBoundsFirstGroup(match) == <<match[3], match[4]>>

\* the bounds of the slice that `content` is read from: the group that took
\* part in the match; <<0, 0>> when neither did and content stays ""
ContentBounds(match) ==
    IF match[3] # -1 /\ match[4] # -1 THEN <<match[3], match[4]>>
    ELSE IF match[5] # -1 /\ match[6] # -1 THEN <<match[5], match[6]>>
    ELSE <<0, 0>>

\* the content of a match as the code reads it from the index tuple
MatchContent(text, match) ==
    SliceBytes(text, ContentBounds(match)[1], ContentBounds(match)[2])

\* one turn of a `for _, match := range matches` loop slices the text out of
\* range: text[match[2]:match[3]] or text[match[4]:match[5]],
\* text[matchStart:matchEnd], text[:matchStart]
MatchPanics(text, match) ==
    \/ ~SliceInRange(text, ContentBounds(match)[1], ContentBounds(match)[2])
    \/ ~SliceInRange(text, match[1], match[2])
    \/ ~SliceInRange(text, 0, match[1])

\* some turn of the loop over the matches panics
StyleLoopPanics(text, matches) ==
    \E k \in 1..Len(matches) : MatchPanics(text, matches[k])

RECURSIVE ReplaceFrom(_, _, _)
ReplaceFrom(text, matches, from) ==
    IF matches = <<>> THEN SliceBytes(text, from, StrByteLen(text))
    ELSE LET m == Head(matches)
             g1 == IF m[3] # -1 THEN SliceBytes(text, m[3], m[4]) ELSE <<>>
             g2 == IF m[5] # -1 THEN SliceBytes(text, m[5], m[6]) ELSE <<>>
         IN  SliceBytes(text, from, m[1]) \o g1 \o g2
                 \o ReplaceFrom(text, Tail(matches), m[2])

\* regexp.ReplaceAllString(text, "$1$2")
ReplaceAllString(n, text) == ReplaceFrom(text, FindAllStringSubmatchIndex(n, text), 0)

(***************************************************************************)
(* Requests of the Docs API.                                               *)
(***************************************************************************)
InsertTextRequest(index, text) ==
    [type |-> "InsertText", index |-> index, text |-> text]

UpdateParagraphStyleRequest(startIndex, endIndex, namedStyleType) ==
    [type |-> "UpdateParagraphStyle", startIndex |-> startIndex,
     endIndex |-> endIndex, namedStyleType |-> namedStyleType,
     fields |-> "namedStyleType"]

UpdateTextStyleRequest(startIndex, endIndex, field) ==
    [type |-> "UpdateTextStyle", startIndex |-> startIndex, endIndex |-> endIndex,
     bold |-> (field = "bold"), italic |-> (field = "italic"), fields |-> field]

DeleteContentRangeRequest(startIndex, endIndex) ==
    [type |-> "DeleteContentRange", startIndex |-> startIndex, endIndex |-> endIndex]

(***************************************************************************)
(* parseInlineFormatting.                                                  *)
(***************************************************************************)
\* a plausible slip: the byte offset of the match taken for its rune offset
MatchStartAsByteOffset(text, matchStart) == matchStart

\* rune offset of a match start: utf8.RuneCountInString(text[:matchStart])
MatchStartRunes(text, matchStart) == RuneCountInString(SliceBytes(text, 0, matchStart))

RECURSIVE StyleLoop(_, _, _, _, _)
\* one `for _, match := range matches` loop: the UpdateTextStyle requests
StyleLoop(text, matches, startIndex, offset, field) ==
    IF matches = <<>> THEN <<>>
    ELSE LET match == Head(matches)
             content == MatchContent(text, match)
             contentRuneCount == RuneCountInString(content)
             matchRuneCount == RuneCountInString(SliceBytes(text, match[1], match[2]))
             markerLength == matchRuneCount - contentRuneCount
             adjustedStart == MatchStartRunes(text, match[1]) - offset
             adjustedEnd == adjustedStart + contentRuneCount
         IN  <<UpdateTextStyleRequest(startIndex + adjustedStart,
                                      startIndex + adjustedEnd, field)>>
                 \o StyleLoop(text, Tail(matches), startIndex,
                              offset + markerLength, field)

\* a plausible slip: the italic requests appended ahead of the bold ones
parseInlineFormattingItalicFirst(text, startIndex) ==
    LET boldMatches == FindAllStringSubmatchIndex(2, text)
        boldRequests == StyleLoop(text, boldMatches, startIndex, 0, "bold")
        plainText == ReplaceAllString(2, text)
        italicMatches == FindAllStringSubmatchIndex(1, plainText)
        italicRequests == StyleLoop(plainText, italicMatches, startIndex, 0, "italic")
    IN  [text |-> ReplaceAllString(1, plainText),
         requests |-> italicRequests \o boldRequests]

\* parseInlineFormatting(text, startIndex): (plainText, requests)
parseInlineFormatting(text, startIndex) ==
    LET boldMatches == FindAllStringSubmatchIndex(2, text)
        boldRequests == StyleLoop(text, boldMatches, startIndex, 0, "bold")
        plainText == ReplaceAllString(2, text)
        italicMatches == FindAllStringSubmatchIndex(1, plainText)
        italicRequests == StyleLoop(plainText, italicMatches, startIndex, 0, "italic")
    IN  [text |-> ReplaceAllString(1, plainText),
         requests |-> boldRequests \o italicRequests]

\* parseInlineFormatting panics in its bold loop or in its italic loop
parseInlineFormattingPanics(text) ==
    \/ StyleLoopPanics(text, FindAllStringSubmatchIndex(2, text))
    \/ StyleLoopPanics(ReplaceAllString(2, text),
                       FindAllStringSubmatchIndex(1, ReplaceAllString(2, text)))

(***************************************************************************)
(* MarkdownToDocsRequests: one line of the loop, and the whole loop.       *)
(***************************************************************************)
RECURSIVE LeadingHashes(_)
\* the `level` loop: the number of leading '#'
LeadingHashes(line) ==
    IF line # <<>> /\ Head(line) = "#" THEN 1 + LeadingHashes(Tail(line)) ELSE 0

\* a plausible slip: the level clamped to the six heading styles of the service
HeadingStyleClamped(level) == "HEADING_" \o ToString(IF level > 6 THEN 6 ELSE level)

\* fmt.Sprintf("HEADING_%d", level)
HeadingStyle(level) == "HEADING_" \o ToString(level)

IsBlankLine(rawLine) == TrimSpace(rawLine) = <<>>
IsHeadingLine(rawLine) == ~IsBlankLine(rawLine) /\ Head(TrimSpace(rawLine)) = "#"
IsParagraphLine(rawLine) == ~IsBlankLine(rawLine) /\ ~IsHeadingLine(rawLine)

\* a plausible slip: the cursor is left where it was
BlankLineNoAdvance(cur) ==
    [requests |-> <<InsertTextRequest(cur, <<"\n">>)>>, next |-> cur]

\* the blank-line branch
BlankLine(cur) ==
    [requests |-> <<InsertTextRequest(cur, <<"\n">>)>>, next |-> cur + 1]

\* the heading branch
HeadingLine(line, cur) ==
    LET level == LeadingHashes(line)
        text == TrimSpace(SliceBytes(line, level, StrByteLen(line)))
        textLen == RuneCountInString(text)
    IN  [requests |-> <<InsertTextRequest(cur, text \o <<"\n">>),
                        UpdateParagraphStyleRequest(cur, cur + textLen + 1,
                                                    HeadingStyle(level))>>,
         next |-> cur + textLen + 1]

\* the paragraph branch
ParagraphLine(line, cur) ==
    LET parsed == parseInlineFormatting(line, cur)
        textLen == RuneCountInString(parsed.text)
    IN  [requests |-> <<InsertTextRequest(cur, parsed.text \o <<"\n">>)>>
                          \o parsed.requests,
         next |-> cur + textLen + 1]

\* the body of the loop panics on the trimmed line: line[level:] in the
\* heading branch, parseInlineFormatting in the paragraph branch
TrimmedLinePanics(line) ==
    IF line = <<>> THEN FALSE
    ELSE IF Head(line) = "#"
    THEN ~SliceInRange(line, LeadingHashes(line), StrByteLen(line))
    ELSE parseInlineFormattingPanics(line)

CompileLinePanics(rawLine) == TrimmedLinePanics(TrimSpace(rawLine))

\* the body of `for _, line := range lines`
CompileLine(rawLine, cur) ==
    LET line == TrimSpace(rawLine)
    IN  IF line = <<>> THEN BlankLine(cur)
        ELSE IF Head(line) = "#" THEN HeadingLine(line, cur)
        ELSE ParagraphLine(line, cur)

RECURSIVE CompileLines(_, _)
CompileLines(lines, cur) ==
    IF lines = <<>> THEN <<>>
    ELSE LET step == CompileLine(Head(lines), cur)
         IN  step.requests \o CompileLines(Tail(lines), step.next)

\* MarkdownToDocsRequests(markdown, startIndex)
MarkdownToDocsRequests(markdown, startIndex) ==
    CompileLines(SplitLines(markdown), startIndex)

(***************************************************************************)
(* The inputs of the compiler.                                             *)
(***************************************************************************)
Alphabet == {"a", "*", "_", "#", " ", "\n", EAcute}

\* every text of at most n runes
Texts(n) == UNION {[1..k -> Alphabet] : k \in 0..n}

\* the building blocks of longer lines: spans, separators, literal text
Spans ==
    { <<"*", "*", "a", "b", "*", "*">>,
      <<"*", "*", EAcute, "*", "*">>,
      <<"_", "_", "a", "_", "_">>,
      <<"*", "b", "*">>,
      <<"_", EAcute, " ", "b", "_">>,
      <<"*", "*", "*", "a", "*", "*", "*">>,
      <<" ">>, <<"x">>, <<"\n">>, <<"#", "#", " ">> }

SpanTexts(n) == {Flatten(ss) : ss \in UNION {[1..k -> Spans] : k \in 0..n}}

\* the examples the specification names
Str_bold_and_italic ==
    <<"*", "*", "b", "o", "l", "d", "*", "*", " ", "a", "n", "d", " ",
      "*", "i", "t", "a", "l", "i", "c", "*">>
Str_heading_six == <<"#", "#", "#", "#", "#", "#", " ", "S", "i", "x", "\n">>
Str_heading_seven == <<"#", "#", "#", "#", "#", "#", "#", " ", "x">>

Str_italic_then_bold == <<"*", "a", "*", " ", "*", "*", "b", "*", "*">>
Str_bold_italic_bold ==
    <<"*", "*", "a", "*", "*", " ", "_", "b", "_", " ", "_", "_", EAcute, "_", "_">>
Str_interleaved == <<"*", "a", "*", "*", "b", "*", "c", "*", "*">>

Samples ==
    {Str_bold_and_italic, Str_heading_six, Str_heading_seven, Str_italic_then_bold,
     Str_bold_italic_bold, Str_interleaved}

\* blank lines between paragraphs, and lines of the constructs the compiler
\* does not parse: table rows, links, images and list items
Str_blank_between == <<"a", "\n", " ", "\t", "\n", "\n", "b">>
Str_table_row == <<"|", " ", "a", " ", "|", " ", "b", " ", "|">>
Str_table_row_underscores ==
    <<"|", " ", "a", "_", "b", " ", "|", " ", "c", "_", "d", " ", "|">>
Str_link == <<"[", "a", "]", "(", "u", ")">>
Str_link_underscores == <<"[", "a", "]", "(", "u", "_", "v", "_", "w", ")">>
Str_image == <<"!", "[", "i", "]", "(", "u", ")">>
Str_bullet == <<"*", " ", "a">>
Str_bullet_twice == <<"*", " ", "a", " ", "*", "b">>
Str_nested_item == <<"-", " ", "a", "\n", " ", " ", "-", " ", "b">>

LineSamples ==
    {Str_blank_between, Str_table_row, Str_table_row_underscores, Str_link,
     Str_link_underscores, Str_image, Str_bullet, Str_bullet_twice, Str_nested_item}

MarkdownInputs == Texts(MaxLen) \cup SpanTexts(MaxSpans) \cup Samples \cup LineSamples

StartIndices == {1, 5}

(***************************************************************************)
(* SpecCompile: MarkdownToDocsRequests called twice in a row with the same *)
(* arguments, each call line by line.  args.call numbers the call and      *)
(* args.first holds what the first call returned.                          *)
(***************************************************************************)
InitCompile ==
    /\ cmd = "compile"
    /\ \E m \in MarkdownInputs, s \in StartIndices :
          args = [markdown |-> m, startIndex |-> s, lines |-> SplitLines(m),
                  lineNo |-> 1, call |-> 1, first |-> <<>>]
    /\ doc = NoDoc
    /\ pc = "loop"
    /\ currentIndex = args.startIndex
    /\ requests = <<>>
    /\ calls = <<>>
    /\ result = Running

\* one turn of the loop: the requests of the line are appended and the
\* cursor advances, or the call panics on a slice out of range
CompileStep(rawLine) ==
    IF CompileLinePanics(rawLine)
    THEN /\ result' = Panic
         /\ pc' = "done"
         /\ UNCHANGED <<cmd, args, doc, currentIndex, requests, calls>>
    ELSE LET step == CompileLine(rawLine, currentIndex)
         IN  /\ requests' = requests \o step.requests
             /\ currentIndex' = step.next
             /\ args' = [args EXCEPT !.lineNo = @ + 1]
             /\ UNCHANGED <<cmd, doc, pc, calls, result>>

HasLine == cmd = "compile" /\ pc = "loop" /\ args.lineNo <= Len(args.lines)
ThisLine == args.lines[args.lineNo]

CompileBlank == HasLine /\ IsBlankLine(ThisLine) /\ CompileStep(ThisLine)

CompileHeading == HasLine /\ IsHeadingLine(ThisLine) /\ CompileStep(ThisLine)

CompileParagraph == HasLine /\ IsParagraphLine(ThisLine) /\ CompileStep(ThisLine)

CompileReturn ==
    /\ cmd = "compile" /\ pc = "loop" /\ args.lineNo > Len(args.lines)
    /\ pc' = "done"
    /\ result' = [status |-> "ok"]
    /\ UNCHANGED <<cmd, args, doc, currentIndex, requests, calls>>

\* the second call: what the first call returned is kept, and the function
\* starts again with `var requests`, strings.Split and currentIndex := startIndex
CompileAgain ==
    /\ cmd = "compile" /\ pc = "done" /\ result.status = "ok" /\ args.call = 1
    /\ args' = [args EXCEPT !.call = 2, !.first = requests,
                            !.lines = SplitLines(args.markdown), !.lineNo = 1]
    /\ requests' = <<>>
    /\ currentIndex' = args.startIndex
    /\ pc' = "loop"
    /\ result' = Running
    /\ UNCHANGED <<cmd, doc, calls>>

NextCompile ==
    CompileBlank \/ CompileHeading \/ CompileParagraph \/ CompileReturn \/ CompileAgain

SpecCompile == InitCompile /\ [][NextCompile]_vars

(***************************************************************************)
(* Documents of the Docs API.  Nil is a nil pointer or an absent field.    *)
(*   Document          [title, body]         body: Nil or [content]        *)
(*   StructuralElement [startIndex, endIndex, paragraph, table]            *)
(*   Paragraph         [paragraphStyle, elements]                          *)
(*   ParagraphStyle    [namedStyleType]                                    *)
(*   ParagraphElement  [textRun]             textRun: Nil or TextRun       *)
(*   TextRun           [content, textStyle]                                *)
(*   TextStyle         [bold, italic, link]  link: Nil or [url]            *)
(*   Table             [tableRows], TableRow [tableCells], TableCell       *)
(*                     [content]                                           *)
(***************************************************************************)
Nil == [nil |-> TRUE]

TextRun(content, textStyle) == [textRun |-> [content |-> content, textStyle |-> textStyle]]

TextStyle(bold, italic, link) == [bold |-> bold, italic |-> italic, link |-> link]

\* a paragraph; NoStyle for one whose ParagraphStyle is nil
NoStyle == "<nil>"

Paragraph(namedStyleType, elements) ==
    [paragraphStyle |-> IF namedStyleType = NoStyle THEN Nil
                        ELSE [namedStyleType |-> namedStyleType],
     elements |-> elements]

ParagraphElementAt(startIndex, endIndex, paragraph) ==
    [startIndex |-> startIndex, endIndex |-> endIndex, paragraph |-> paragraph,
     table |-> Nil]

TableElementAt(startIndex, endIndex, table) ==
    [startIndex |-> startIndex, endIndex |-> endIndex, paragraph |-> Nil,
     table |-> table]

(***************************************************************************)
(* DocsToMarkdown and its helpers.                                         *)
(***************************************************************************)
RECURSIVE RunsText(_)
\* the loop of GetParagraphText: the contents of the text runs, concatenated
RunsText(elements) ==
    IF elements = <<>> THEN <<>>
    ELSE (IF Head(elements).textRun # Nil THEN Head(elements).textRun.content ELSE <<>>)
             \o RunsText(Tail(elements))

\* a plausible slip: the text of the first run only
GetParagraphTextFirstRun(paragraph) ==
    TrimSpace(RunsText(IF paragraph.elements = <<>> THEN <<>>
                       ELSE <<Head(paragraph.elements)>>))

\* GetParagraphText(paragraph)
GetParagraphText(paragraph) == TrimSpace(RunsText(paragraph.elements))

\* a plausible slip: the link wrap applied first, bold and italic around it
FormatRunLinkFirst(run) ==
    LET style == run.textStyle
        c0 == run.content
        c1 == IF style # Nil /\ style.link # Nil
              THEN <<"[">> \o TrimSpace(c0) \o <<"]", "(">> \o style.link.url \o <<")">>
              ELSE c0
        c2 == IF style # Nil /\ style.bold
              THEN <<"*", "*">> \o TrimSpace(c1) \o <<"*", "*">> ELSE c1
        c3 == IF style # Nil /\ style.italic
              THEN <<"*">> \o TrimSpace(c2) \o <<"*">> ELSE c2
    IN  c3

\* one text run of formatParagraphAsMarkdown: bold, then italic, then link
FormatRun(run) ==
    LET style == run.textStyle
        c0 == run.content
        c1 == IF style # Nil /\ style.bold
              THEN <<"*", "*">> \o TrimSpace(c0) \o <<"*", "*">> ELSE c0
        c2 == IF style # Nil /\ style.italic
              THEN <<"*">> \o TrimSpace(c1) \o <<"*">> ELSE c1
        c3 == IF style # Nil /\ style.link # Nil
              THEN <<"[">> \o TrimSpace(c2) \o <<"]", "(">> \o style.link.url \o <<")">>
              ELSE c2
    IN  c3

RECURSIVE FormatRuns(_)
FormatRuns(elements) ==
    IF elements = <<>> THEN <<>>
    ELSE (IF Head(elements).textRun # Nil THEN FormatRun(Head(elements).textRun)
          ELSE <<>>) \o FormatRuns(Tail(elements))

\* formatParagraphAsMarkdown(paragraph)
formatParagraphAsMarkdown(paragraph) ==
    LET res == FormatRuns(paragraph.elements)
    IN  IF TrimSpace(res) # <<>> THEN res \o <<"\n", "\n">> ELSE <<>>

RECURSIVE CellParagraphsText(_)
CellParagraphsText(content) ==
    IF content = <<>> THEN <<>>
    ELSE (IF Head(content).paragraph # Nil THEN GetParagraphText(Head(content).paragraph)
          ELSE <<>>) \o CellParagraphsText(Tail(content))

\* getTableCellText(cell)
getTableCellText(cell) == TrimSpace(CellParagraphsText(cell.content))

RECURSIVE RowCells(_)
\* the cells of one row: " text |" for each
RowCells(cells) ==
    IF cells = <<>> THEN <<>>
    ELSE <<" ">> \o getTableCellText(Head(cells)) \o <<" ", "|">> \o RowCells(Tail(cells))

RECURSIVE SeparatorCells(_)
SeparatorCells(cells) ==
    IF cells = <<>> THEN <<>>
    ELSE <<" ", "-", "-", "-", " ", "|">> \o SeparatorCells(Tail(cells))

RECURSIVE TableRowsTextSeparatorEachRow(_, _)
\* a plausible slip: the separator written after every row
TableRowsTextSeparatorEachRow(rows, rowIdx) ==
    IF rowIdx > Len(rows) THEN <<>>
    ELSE <<"|">> \o RowCells(rows[rowIdx].tableCells) \o <<"\n">>
           \o <<"|">> \o SeparatorCells(rows[rowIdx].tableCells) \o <<"\n">>
           \o TableRowsTextSeparatorEachRow(rows, rowIdx + 1)

RECURSIVE TableRowsText(_, _)
TableRowsText(rows, rowIdx) ==
    IF rowIdx > Len(rows) THEN <<>>
    ELSE <<"|">> \o RowCells(rows[rowIdx].tableCells) \o <<"\n">>
           \o (IF rowIdx = 1
               THEN <<"|">> \o SeparatorCells(rows[rowIdx].tableCells) \o <<"\n">>
               ELSE <<>>)
           \o TableRowsText(rows, rowIdx + 1)

\* tableToMarkdown(table)
tableToMarkdown(table) == TableRowsText(table.tableRows, 1) \o <<"\n">>

RECURSIVE Hashes(_)
Hashes(n) == IF n = 0 THEN <<>> ELSE <<"#">> \o Hashes(n - 1)

\* a plausible slip: the last case of the switch left out
SwitchLevelUpToFive(styleType) ==
    CASE styleType = "HEADING_1" -> 1
      [] styleType = "HEADING_2" -> 2
      [] styleType = "HEADING_3" -> 3
      [] styleType = "HEADING_4" -> 4
      [] styleType = "HEADING_5" -> 5
      [] OTHER -> 0

\* the switch of DocsToMarkdown: the level of HEADING_1..HEADING_6, 0 for the
\* default case
SwitchLevel(styleType) ==
    CASE styleType = "HEADING_1" -> 1
      [] styleType = "HEADING_2" -> 2
      [] styleType = "HEADING_3" -> 3
      [] styleType = "HEADING_4" -> 4
      [] styleType = "HEADING_5" -> 5
      [] styleType = "HEADING_6" -> 6
      [] OTHER -> 0

\* one element of doc.Body.Content
ElementToMarkdown(element) ==
    IF element.paragraph # Nil
    THEN LET paragraph == element.paragraph
         IN  IF paragraph.paragraphStyle # Nil
                  /\ paragraph.paragraphStyle.namedStyleType # ""
                  /\ SwitchLevel(paragraph.paragraphStyle.namedStyleType) > 0
             THEN Hashes(SwitchLevel(paragraph.paragraphStyle.namedStyleType))
                      \o <<" ">> \o GetParagraphText(paragraph) \o <<"\n", "\n">>
             ELSE formatParagraphAsMarkdown(paragraph)
    ELSE IF element.table # Nil THEN tableToMarkdown(element.table)
    ELSE <<>>

RECURSIVE ContentToMarkdown(_)
ContentToMarkdown(content) ==
    IF content = <<>> THEN <<>>
    ELSE ElementToMarkdown(Head(content)) \o ContentToMarkdown(Tail(content))

\* DocsToMarkdown(doc): the markdown, or a panic where the code dereferences nil
DocsToMarkdown(d) ==
    IF d.body = Nil THEN Panic
    ELSE [status |-> "ok",
          text |-> <<"#", " ">> \o d.title \o <<"\n", "\n">>
                       \o ContentToMarkdown(d.body.content)]

(***************************************************************************)
(* Well-formed documents: the blocks of a body laid out from index 1, each *)
(* paragraph as long as its text, a table with one index unit for the      *)
(* table, one for each row and one for each cell ahead of the cell's       *)
(* paragraphs, and one closing the table.                                  *)
(***************************************************************************)
ParagraphLen(paragraph) == Len(RunsText(paragraph.elements))

RECURSIVE LayoutParagraphs(_, _)
\* the paragraphs of a cell, from index `at` on
LayoutParagraphs(paragraphs, at) ==
    IF paragraphs = <<>> THEN <<>>
    ELSE LET to == at + ParagraphLen(Head(paragraphs))
         IN  <<ParagraphElementAt(at, to, Head(paragraphs))>>
                 \o LayoutParagraphs(Tail(paragraphs), to)

ContentEnd(content, at) == IF content = <<>> THEN at ELSE content[Len(content)].endIndex

RECURSIVE LayoutCells(_, _)
\* the cells of a row (each a sequence of paragraphs), the first starting at `at`
LayoutCells(cells, at) ==
    IF cells = <<>> THEN <<>>
    ELSE LET content == LayoutParagraphs(Head(cells), at + 1)
             to == ContentEnd(content, at + 1)
         IN  <<[startIndex |-> at, endIndex |-> to, content |-> content]>>
                 \o LayoutCells(Tail(cells), to)

RECURSIVE LayoutRows(_, _)
LayoutRows(rows, at) ==
    IF rows = <<>> THEN <<>>
    ELSE LET cells == LayoutCells(Head(rows), at + 1)
             to == ContentEnd(cells, at + 1)
         IN  <<[startIndex |-> at, endIndex |-> to, tableCells |-> cells]>>
                 \o LayoutRows(Tail(rows), to)

\* a block is a paragraph, or [rows |-> rows of cells of paragraphs]
IsTableBlock(block) == "rows" \in DOMAIN block

RECURSIVE LayoutBlocks(_, _)
LayoutBlocks(blocks, at) ==
    IF blocks = <<>> THEN <<>>
    ELSE LET block == Head(blocks)
         IN  IF IsTableBlock(block)
             THEN LET rows == LayoutRows(block.rows, at + 1)
                      to == ContentEnd(rows, at + 1) + 1
                  IN  <<TableElementAt(at, to, [tableRows |-> rows])>>
                          \o LayoutBlocks(Tail(blocks), to)
             ELSE LET to == at + ParagraphLen(block)
                  IN  <<ParagraphElementAt(at, to, block)>>
                          \o LayoutBlocks(Tail(blocks), to)

\* a document as the service returns it
MakeDoc(title, blocks) ==
    [title |-> title, body |-> [content |-> LayoutBlocks(blocks, 1)], revision |-> 0]

\* a paragraph of one unstyled run holding text and its newline
PlainParagraph(namedStyleType, text) ==
    Paragraph(namedStyleType, <<TextRun(text \o <<"\n">>, Nil)>>)

(***************************************************************************)
(* The documents given to the renderer.                                    *)
(***************************************************************************)
MaxParas == 2

PlainStyles == {NoStyle, "NORMAL_TEXT", "HEADING_1", "HEADING_6"}

ParaTexts == { <<"a">>, <<EAcute, " ", "b">>, <<" ", "a">>, <<"#", "a">>,
               <<"*", "a", "*">>, <<>> }

PlainParagraphs ==
    {PlainParagraph(st, t) : st \in PlainStyles, t \in ParaTexts}
    \cup {Paragraph(st, <<TextRun(<<"a">>, TextStyle(FALSE, FALSE, Nil)),
                          [textRun |-> Nil],
                          TextRun(<<"b", "\n">>, Nil)>>) : st \in {"NORMAL_TEXT", "HEADING_2"}}

Url == <<"u">>

RunStyles ==
    {Nil} \cup {TextStyle(b, i, l) : b \in BOOLEAN, i \in BOOLEAN,
                                    l \in {Nil, [url |-> Url]}}

StyledParagraphs ==
    {Paragraph(st, <<TextRun(t, s)>>) :
        st \in {NoStyle, "", "TITLE", "HEADING_2"},
        t \in {<<"a", "\n">>, <<" ", "a", " ">>, <<" ", "\n">>},
        s \in RunStyles}

CellTexts == {<<"a">>, <<" ", EAcute, " ">>}

TableBlocks ==
    {[rows |-> rows] : rows \in
        {<<>>, <<<<>>>>, <<<<>>, <<>>>>, <<<< <<>> >>>>}
        \cup {<<<< <<PlainParagraph(NoStyle, t)>> >>>> : t \in CellTexts}
        \cup {<< << <<PlainParagraph("NORMAL_TEXT", t)>>,
                    <<PlainParagraph("HEADING_1", u), PlainParagraph(NoStyle, t)>> >>,
                 << <<PlainParagraph(NoStyle, u)>>, <<PlainParagraph(NoStyle, t)>> >> >>
                 : t \in CellTexts, u \in CellTexts}
        \cup { << << <<Paragraph("NORMAL_TEXT",
                                 <<TextRun(<<" ", "a">>, TextStyle(TRUE, TRUE, [url |-> Url])),
                                   TextRun(<<"b", "\n">>, Nil)>>)>>,
                     <<>>, <<PlainParagraph(NoStyle, <<>>)>> >>,
                  << <<PlainParagraph(NoStyle, <<"c">>)>>, <<PlainParagraph(NoStyle, <<"d">>)>>,
                     <<PlainParagraph("HEADING_2", <<"e">>)>> >>,
                  << <<PlainParagraph(NoStyle, <<"f">>)>>, <<PlainParagraph(NoStyle, <<"g">>)>>,
                     <<PlainParagraph(NoStyle, <<"h">>)>> >> >> }}

\* paragraphs of two runs, the first of them text or white space only
TwoRunParagraphs ==
    {Paragraph(st, <<TextRun(t, s), TextRun(<<"b", "\n">>, s2)>>) :
        st \in {"NORMAL_TEXT", "HEADING_3"},
        t \in {<<"a", " ">>, <<" ">>},
        s \in RunStyles,
        s2 \in {Nil, TextStyle(TRUE, FALSE, Nil)}}

\* titles: plain, empty, with a leading blank, and of two lines
Titles == {<<"T">>, <<>>, <<" ", "T">>, <<"T", "\n", "U">>}

PlainBodies == UNION {[1..k -> PlainParagraphs] : k \in 0..MaxParas}

RenderDocs ==
    {MakeDoc(<<"T">>, blocks) : blocks \in PlainBodies}
    \cup {MakeDoc(t, <<p>>) : t \in Titles, p \in PlainParagraphs}
    \cup {MakeDoc(t, <<b>>) : t \in Titles, b \in StyledParagraphs \cup TableBlocks}
    \cup {MakeDoc(<<"T">>, <<b>>) : b \in TwoRunParagraphs}
    \cup {MakeDoc(t, <<>>) : t \in Titles}
    \cup {[title |-> t, body |-> Nil, revision |-> 0] : t \in Titles}

(***************************************************************************)
(* SpecRender: DocsToMarkdown on a document, then MarkdownToDocsRequests   *)
(* on the markdown it returned, from index 1.                              *)
(***************************************************************************)
InitRender ==
    /\ cmd = "render"
    /\ args = NoArgs
    /\ doc \in RenderDocs
    /\ pc = "start"
    /\ currentIndex = 1
    /\ requests = <<>>
    /\ calls = <<>>
    /\ result = Running

\* DocsToMarkdown returns
RenderDocument ==
    /\ cmd = "render" /\ pc = "start" /\ DocsToMarkdown(doc).status = "ok"
    /\ result' = DocsToMarkdown(doc)
    /\ pc' = "rendered"
    /\ UNCHANGED <<cmd, args, doc, currentIndex, requests, calls>>

\* DocsToMarkdown dereferences a nil pointer
RenderPanics ==
    /\ cmd = "render" /\ pc = "start" /\ DocsToMarkdown(doc).status = "panic"
    /\ result' = Panic
    /\ pc' = "done"
    /\ UNCHANGED <<cmd, args, doc, currentIndex, requests, calls>>

\* MarkdownToDocsRequests(markdown, 1) on the rendered markdown
CompileRendered ==
    /\ cmd = "render" /\ pc = "rendered"
    /\ requests' = MarkdownToDocsRequests(result.text, 1)
    /\ pc' = "compiled"
    /\ UNCHANGED <<cmd, args, doc, currentIndex, calls, result>>

NextRender == RenderDocument \/ RenderPanics \/ CompileRendered

SpecRender == InitRender /\ [][NextRender]_vars

(***************************************************************************)
(* The legacy compiler (src/helpers.go, package main): markdownToDocsRequests *)
(* and its parseInlineFormatting.  A result is [panic, ...]: panic is TRUE *)
(* where the code slices a string with a negative index.                   *)
(***************************************************************************)
RECURSIVE legacyBoldLoop(_, _, _)
\* the `for _, match := range matches` loop of the legacy parseInlineFormatting:
\* plainText[match[2]:match[3]] is evaluated for every match, and the range is
\* that of the whole match in byte offsets
legacyBoldLoop(text, matches, startIndex) ==
    IF matches = <<>> THEN [panic |-> FALSE, requests |-> <<>>]
    ELSE LET match == Head(matches)
             rest == legacyBoldLoop(text, Tail(matches), startIndex)
         IN  IF match[3] < 0 \/ match[4] < 0 \/ rest.panic
             THEN [panic |-> TRUE, requests |-> <<>>]
             ELSE [panic |-> FALSE,
                   requests |-> <<UpdateTextStyleRequest(startIndex + match[1],
                                                         startIndex + match[2], "bold")>>
                                    \o rest.requests]

\* the values the legacy parseInlineFormatting returns, from the outcome of
\* its bold loop
legacyParsed(bold, text) ==
    [panic |-> bold.panic,
     text |-> ReplaceAllString(1, ReplaceAllString(2, text)),
     requests |-> bold.requests]

\* parseInlineFormatting of package main
legacyParseInlineFormatting(text, startIndex) ==
    legacyParsed(legacyBoldLoop(text, FindAllStringSubmatchIndex(2, text), startIndex),
                 text)

\* the heading branch of the line loop; lengths are len(), in bytes
legacyHeadingLine(text, level, cur) ==
    [panic |-> FALSE,
     requests |-> <<InsertTextRequest(cur, text \o <<"\n">>),
                    UpdateParagraphStyleRequest(cur, cur + StrByteLen(text) + 1,
                                                HeadingStyle(level))>>,
     next |-> cur + StrByteLen(text) + 1]

\* the paragraph branch of the line loop, from what parseInlineFormatting
\* returned
legacyParagraphLine(parsed, cur) ==
    [panic |-> parsed.panic,
     requests |-> <<InsertTextRequest(cur, parsed.text \o <<"\n">>)>> \o parsed.requests,
     next |-> cur + StrByteLen(parsed.text) + 1]

\* the branches of the line loop on the trimmed line
legacyCompileTrimmed(line, cur) ==
    IF line = <<>>
    THEN [panic |-> FALSE, requests |-> <<InsertTextRequest(cur, <<"\n">>)>>,
          next |-> cur + 1]
    ELSE IF Head(line) = "#"
    THEN legacyHeadingLine(TrimSpace(SliceBytes(line, LeadingHashes(line),
                                                StrByteLen(line))),
                           LeadingHashes(line), cur)
    ELSE legacyParagraphLine(legacyParseInlineFormatting(line, cur), cur)

\* the body of the line loop of markdownToDocsRequests
legacyCompileLine(rawLine, cur) == legacyCompileTrimmed(TrimSpace(rawLine), cur)

RECURSIVE legacyCompileLines(_, _)
\* the requests of a line followed by those of the lines after it
legacyAppendLine(step, rest) ==
    IF step.panic \/ rest.panic THEN [panic |-> TRUE, requests |-> <<>>]
    ELSE [panic |-> FALSE, requests |-> step.requests \o rest.requests]

\* the rest of the loop after a line has been compiled
legacyAfterLine(step, lines) == legacyAppendLine(step, legacyCompileLines(lines, step.next))

legacyCompileLines(lines, cur) ==
    IF lines = <<>> THEN [panic |-> FALSE, requests |-> <<>>]
    ELSE legacyAfterLine(legacyCompileLine(Head(lines), cur), Tail(lines))

\* markdownToDocsRequests(markdown, startIndex) of package main
markdownToDocsRequests(markdown, startIndex) ==
    legacyCompileLines(SplitLines(markdown), startIndex)

(***************************************************************************)
(* ParseColor (internal/conversion/colors.go).                             *)
(***************************************************************************)
\* the value of a hexadecimal digit, -1 for any other rune
HexValue(r) ==
    CASE r = "0" -> 0 [] r = "1" -> 1 [] r = "2" -> 2 [] r = "3" -> 3
      [] r = "4" -> 4 [] r = "5" -> 5 [] r = "6" -> 6 [] r = "7" -> 7
      [] r = "8" -> 8 [] r = "9" -> 9
      [] r \in {"a", "A"} -> 10 [] r \in {"b", "B"} -> 11 [] r \in {"c", "C"} -> 12
      [] r \in {"d", "D"} -> 13 [] r \in {"e", "E"} -> 14 [] r \in {"f", "F"} -> 15
      [] OTHER -> -1

\* a rune that the scanner takes as part of a hexadecimal number: fmt's digit
\* set for %x is "0123456789aAbBcCdDeEfF"
IsNumberRune(s, k) == k <= Len(s) /\ HexValue(s[k]) >= 0

RECURSIVE SkipSpace(_, _)
\* the position after the blanks that precede a verb's input
SkipSpace(s, at) ==
    IF at <= Len(s) /\ s[at] \in {" ", "\t"} THEN SkipSpace(s, at + 1) ELSE at

\* one %02x verb of fmt.Sscanf into an int, from rune position `at`: blanks
\* are skipped, then at most two runes are read, an optional sign and
\* hexadecimal digits, and the number ends at the first rune that is not one;
\* err when no digit is read
ScanHex2(s, at) ==
    LET from == SkipSpace(s, at)
        signed == from <= Len(s) /\ s[from] \in {"+", "-"}
        first == IF signed THEN from + 1 ELSE from
        two == ~signed /\ IsNumberRune(s, first + 1)
        sign == IF signed /\ s[from] = "-" THEN -1 ELSE 1
        failed == [err |-> TRUE, value |-> 0, next |-> at]
    IN  IF ~IsNumberRune(s, first) THEN failed
        ELSE IF two
             THEN [err |-> FALSE,
                   value |-> 16 * HexValue(s[first]) + HexValue(s[first + 1]),
                   next |-> first + 2]
        ELSE [err |-> FALSE, value |-> sign * HexValue(s[first]), next |-> first + 1]

\* fmt.Sscanf(hexColor, "%02x%02x%02x", &r, &g, &b): scanning stops at the
\* first verb that fails, the later variables keep their zero value, and the
\* error is dropped
ScanRGB(s) ==
    LET r == ScanHex2(s, 1)
        g == IF r.err THEN [err |-> TRUE, value |-> 0, next |-> 1] ELSE ScanHex2(s, r.next)
        b == IF g.err THEN [err |-> TRUE, value |-> 0, next |-> 1] ELSE ScanHex2(s, g.next)
    IN  [r |-> r.value, g |-> g.value, b |-> b.value]

\* strings.TrimPrefix(hexColor, "#")
TrimHashPrefix(s) == IF s # <<>> /\ Head(s) = "#" THEN Tail(s) ELSE s

\* ParseColor(hexColor): Nil, or the colour; a channel is its numerator over 255.0
ParseColor(hexColor) ==
    LET hex == TrimHashPrefix(hexColor)
    IN  IF StrByteLen(hex) # 6 THEN Nil
        ELSE [red |-> ScanRGB(hex).r, green |-> ScanRGB(hex).g, blue |-> ScanRGB(hex).b]

(***************************************************************************)
(* GetStructure and FindSection (internal/document).                       *)
(***************************************************************************)
DigitValue(r) ==
    CASE r = "0" -> 0 [] r = "1" -> 1 [] r = "2" -> 2 [] r = "3" -> 3
      [] r = "4" -> 4 [] r = "5" -> 5 [] r = "6" -> 6 [] r = "7" -> 7
      [] r = "8" -> 8 [] r = "9" -> 9 [] OTHER -> -1

\* strings.HasPrefix(styleType, "HEADING_")
HasHeadingPrefix(styleType) ==
    Len(styleType) >= 8 /\ SubSeq(styleType, 1, 8) = "HEADING_"

RECURSIVE ScanDecimal(_, _, _)
\* the digits of styleType from position k on, as %d reads them
ScanDecimal(styleType, k, acc) ==
    IF k <= Len(styleType) /\ DigitValue(SubSeq(styleType, k, k)) >= 0
    THEN ScanDecimal(styleType, k + 1, 10 * acc + DigitValue(SubSeq(styleType, k, k)))
    ELSE acc

\* a plausible slip: the scan does not match and level keeps its zero value
ScanHeadingLevelUnset(styleType) == 0

\* fmt.Sscanf(styleType, "HEADING_%d", &level); level stays 0 when nothing scans
ScanHeadingLevel(styleType) == ScanDecimal(styleType, 9, 0)

Section(endIndex, level, startIndex, title) ==
    [endIndex |-> endIndex, level |-> level, startIndex |-> startIndex, title |-> title]

RECURSIVE SectionsOf(_)
SectionsOf(content) ==
    IF content = <<>> THEN <<>>
    ELSE LET element == Head(content)
             paragraph == element.paragraph
         IN  (IF /\ paragraph # Nil
                 /\ paragraph.paragraphStyle # Nil
                 /\ paragraph.paragraphStyle.namedStyleType # ""
                 /\ HasHeadingPrefix(paragraph.paragraphStyle.namedStyleType)
              THEN <<Section(element.endIndex,
                             ScanHeadingLevel(paragraph.paragraphStyle.namedStyleType),
                             element.startIndex, GetParagraphText(paragraph))>>
              ELSE <<>>) \o SectionsOf(Tail(content))

\* GetStructure(doc)
GetStructure(d) == SectionsOf(d.body.content)

Uppers == <<"A", "B", "C", "D", "E", "F", "G", "H", "I", "J", "K", "L", "M",
            "N", "O", "P", "Q", "R", "S", "T", "U", "V", "W", "X", "Y", "Z",
            EAcuteUpper>>
Lowers == <<"a", "b", "c", "d", "e", "f", "g", "h", "i", "j", "k", "l", "m",
            "n", "o", "p", "q", "r", "s", "t", "u", "v", "w", "x", "y", "z",
            EAcute>>

\* simple case folding of one rune
Fold(r) ==
    IF \E k \in DOMAIN Uppers : Uppers[k] = r THEN Lowers[CHOOSE k \in DOMAIN Uppers : Uppers[k] = r]
    ELSE r

\* strings.EqualFold
EqualFold(s, t) == Len(s) = Len(t) /\ \A k \in 1..Len(s) : Fold(s[k]) = Fold(t[k])

\* a plausible slip: a title that starts with the name is taken as a match
FirstMatchByPrefix(sections, sectionName) ==
    LET hits == {k \in 1..Len(sections) :
                    /\ Len(sections[k].title) >= Len(sectionName)
                    /\ EqualFold(SubSeq(sections[k].title, 1, Len(sectionName)),
                                 sectionName)}
    IN  IF hits = {} THEN Nil ELSE sections[CHOOSE k \in hits : \A j \in hits : k <= j]

\* a plausible slip: the loop keeps going and the last match wins
LastMatch(sections, sectionName) ==
    LET hits == {k \in 1..Len(sections) : EqualFold(sections[k].title, sectionName)}
    IN  IF hits = {} THEN Nil ELSE sections[CHOOSE k \in hits : \A j \in hits : k >= j]

\* the loop of FindSection: the first section whose title equals the name
FirstMatch(sections, sectionName) ==
    LET hits == {k \in 1..Len(sections) : EqualFold(sections[k].title, sectionName)}
    IN  IF hits = {} THEN Nil ELSE sections[CHOOSE k \in hits : \A j \in hits : k <= j]

\* FindSection(doc, sectionName): the section, or Nil
FindSection(d, sectionName) == FirstMatch(GetStructure(d), sectionName)

(***************************************************************************)
(* Command-line arguments and the remote service.                          *)
(***************************************************************************)
RECURSIVE DecimalValue(_, _)
DecimalValue(s, acc) ==
    IF s = <<>> THEN acc ELSE DecimalValue(Tail(s), 10 * acc + DigitValue(Head(s)))

\* strconv.Atoi / strconv.ParseInt(s, 10, 64) on the arguments of the model
ParseInt(s) ==
    LET signed == s # <<>> /\ Head(s) \in {"+", "-"}
        digits == IF signed THEN Tail(s) ELSE s
    IN  IF digits # <<>> /\ \A k \in 1..Len(digits) : DigitValue(digits[k]) >= 0
        THEN [err |-> FALSE,
              value |-> (IF signed /\ Head(s) = "-" THEN -1 ELSE 1) * DecimalValue(digits, 0)]
        ELSE [err |-> TRUE, value |-> 0]

DigitText(d) ==
    CASE d = 0 -> "0" [] d = 1 -> "1" [] d = 2 -> "2" [] d = 3 -> "3" [] d = 4 -> "4"
      [] d = 5 -> "5" [] d = 6 -> "6" [] d = 7 -> "7" [] d = 8 -> "8" [] d = 9 -> "9"

RECURSIVE NatText(_)
NatText(n) == IF n < 10 THEN <<DigitText(n)>> ELSE NatText(n \div 10) \o <<DigitText(n % 10)>>

\* an integer as it is typed on the command line
IntText(n) == IF n < 0 THEN <<"-">> \o NatText(-n) ELSE NatText(n)

Error(message) == [status |-> "error", message |-> message]

\* fmt.Errorf("section not found: %s", sectionName)
SectionNotFound(sectionName) ==
    [status |-> "error", message |-> "section not found: ", name |-> sectionName]
Ok == [status |-> "ok"]

\* the first table element that starts at tableStartIndex, or Nil
FindTable(d, tableStartIndex) ==
    LET content == d.body.content
        hits == {k \in 1..Len(content) :
                    content[k].table # Nil /\ content[k].startIndex = tableStartIndex}
    IN  IF hits = {} THEN Nil ELSE content[CHOOSE k \in hits : \A j \in hits : k <= j].table

\* service.Documents.BatchUpdate(...).Do(): the call is recorded; the service
\* applies the whole batch or rejects it
BatchUpdate(reqs, message) ==
    /\ calls' = Append(calls, reqs)
    /\ requests' = reqs
    /\ IF args.env = "update-fails"
       THEN /\ result' = Error(message)
            /\ doc' = doc
       ELSE /\ result' = Ok
            /\ doc' = [doc EXCEPT !.revision = @ + 1]

\* the handler returns before any request is sent
Return(res) ==
    /\ result' = res
    /\ UNCHANGED <<doc, requests, calls>>

\* auth.GetDocsService and service.Documents.Get
ServiceError ==
    IF args.env = "auth-fails" THEN Error("auth")
    ELSE IF args.env = "get-fails" THEN Error("error getting document")
    ELSE Nil

Handler(name) == cmd = name /\ pc = "start"
Done == pc' = "done" /\ UNCHANGED <<cmd, args, currentIndex>>

(***************************************************************************)
(* The command handlers (internal/cli).                                    *)
(***************************************************************************)
\* runInsertAfter
runInsertAfter ==
    /\ Handler("insert-after") /\ Done
    /\ LET section == FindSection(doc, args.sectionName)
       IN  IF ServiceError # Nil THEN Return(ServiceError)
           ELSE IF section = Nil THEN Return(SectionNotFound(args.sectionName))
           ELSE BatchUpdate(<<InsertTextRequest(section.endIndex,
                                                <<"\n">> \o args.text \o <<"\n">>)>>,
                            "error inserting text")

\* runUpdateSection
runUpdateSection ==
    /\ Handler("update-section") /\ Done
    /\ LET section == FindSection(doc, args.sectionName)
       IN  IF args.env = "read-fails" THEN Return(Error("error reading markdown file"))
           ELSE IF ServiceError # Nil THEN Return(ServiceError)
           ELSE IF section = Nil THEN Return(SectionNotFound(args.sectionName))
           ELSE BatchUpdate(<<DeleteContentRangeRequest(section.endIndex,
                                                        section.endIndex + 1)>>
                                \o MarkdownToDocsRequests(args.markdown, section.endIndex),
                            "error updating section")

\* the end of a handler of package main once the markdown is compiled: the
\* panic of the compiler ends the program, else the batch is sent
LegacyBatch(deletes, compiled, message) ==
    IF compiled.panic THEN Return(Panic)
    ELSE BatchUpdate(deletes \o compiled.requests, message)

\* runUpdateSection of package main: as runUpdateSection, with the legacy
\* compiler
main_runUpdateSection ==
    /\ Handler("legacy update-section") /\ Done
    /\ LET section == FindSection(doc, args.sectionName)
       IN  IF args.env = "read-fails" THEN Return(Error("error reading markdown file"))
           ELSE IF ServiceError # Nil THEN Return(ServiceError)
           ELSE IF section = Nil THEN Return(SectionNotFound(args.sectionName))
           ELSE LegacyBatch(<<DeleteContentRangeRequest(section.endIndex,
                                                        section.endIndex + 1)>>,
                            markdownToDocsRequests(args.markdown, section.endIndex),
                            "error updating section")

\* runSetMarkdown of package main: the delete range is sent whatever the end
\* of the body is, and the markdown goes through the legacy compiler
main_runSetMarkdown ==
    /\ Handler("legacy set-markdown") /\ Done
    /\ LET content == doc.body.content
           endIndex == content[Len(content)].endIndex
       IN  IF args.env = "read-fails" THEN Return(Error("error reading markdown file"))
           ELSE IF ServiceError # Nil THEN Return(ServiceError)
           ELSE IF content = <<>> THEN Return(Panic)
           ELSE LegacyBatch(<<DeleteContentRangeRequest(1, endIndex - 1)>>,
                            markdownToDocsRequests(args.markdown, 1),
                            "error updating document")

\* the end of the range set-markdown deletes: `EndIndex: endIndex - 1`
BodyDeleteEnd(endIndex) == endIndex - 1

\* runSetMarkdown
runSetMarkdown ==
    /\ Handler("set-markdown") /\ Done
    /\ LET content == doc.body.content
           endIndex == content[Len(content)].endIndex
           deletes == IF endIndex > 2
                      THEN <<DeleteContentRangeRequest(1, BodyDeleteEnd(endIndex))>>
                      ELSE <<>>
       IN  IF args.env = "read-fails" THEN Return(Error("error reading markdown file"))
           ELSE IF ServiceError # Nil THEN Return(ServiceError)
           ELSE IF content = <<>> THEN Return(Panic)
           ELSE BatchUpdate(deletes \o MarkdownToDocsRequests(args.markdown, 1),
                            "error updating document")

\* strings.Join(fields, ",")
RECURSIVE JoinComma(_)
JoinComma(fields) ==
    IF fields = <<>> THEN ""
    ELSE IF Len(fields) = 1 THEN fields[1]
    ELSE fields[1] \o "," \o JoinComma(Tail(fields))

\* runFormatText
runFormatText ==
    /\ Handler("format-text") /\ Done
    /\ LET startIndex == ParseInt(args.startIndex)
           endIndex == ParseInt(args.endIndex)
           fields == (IF args.bold THEN <<"bold">> ELSE <<>>)
                       \o (IF args.italic THEN <<"italic">> ELSE <<>>)
                       \o (IF args.underline THEN <<"underline">> ELSE <<>>)
                       \o (IF args.color # <<>> THEN <<"foregroundColor">> ELSE <<>>)
                       \o (IF args.size > 0 THEN <<"fontSize">> ELSE <<>>)
           textStyle == [bold |-> args.bold, italic |-> args.italic,
                         underline |-> args.underline,
                         foregroundColor |-> IF args.color # <<>>
                                             THEN ParseColor(args.color) ELSE Nil,
                         fontSize |-> IF args.size > 0
                                      THEN [magnitude |-> args.size, unit |-> "PT"]
                                      ELSE Nil]
       IN  IF startIndex.err THEN Return(Error("invalid start index"))
           ELSE IF endIndex.err THEN Return(Error("invalid end index"))
           ELSE IF args.env = "auth-fails" THEN Return(Error("auth"))
           ELSE IF fields = <<>> THEN Return(Error("no formatting options specified"))
           ELSE BatchUpdate(<<[type |-> "UpdateTextStyle", fields |-> JoinComma(fields),
                               startIndex |-> startIndex.value,
                               endIndex |-> endIndex.value, textStyle |-> textStyle]>>,
                            "error formatting text")

\* the arguments of the two table cell commands, parsed in order
CellArgsError ==
    IF ParseInt(args.tableStartIndex).err THEN Error("invalid table start index")
    ELSE IF ParseInt(args.row).err THEN Error("invalid row")
    ELSE IF ParseInt(args.col).err THEN Error("invalid col")
    ELSE Nil

\* `row >= len(table.TableRows) || col >= len(table.TableRows[0].TableCells)`:
\* "out" when the test is true, "in" when it is false, "panic" when
\* TableRows[0] is indexed in a table without rows
BoundsCheck(table, row, col) ==
    IF row >= Len(table.tableRows) THEN "out"
    ELSE IF Len(table.tableRows) = 0 THEN "panic"
    ELSE IF col >= Len(table.tableRows[1].tableCells) THEN "out"
    ELSE "in"

\* runStyleTableCell
runStyleTableCell ==
    /\ Handler("style-table-cell") /\ Done
    /\ LET tableStartIndex == ParseInt(args.tableStartIndex).value
           row == ParseInt(args.row).value
           col == ParseInt(args.col).value
           table == FindTable(doc, tableStartIndex)
       IN  IF CellArgsError # Nil THEN Return(CellArgsError)
           ELSE IF ServiceError # Nil THEN Return(ServiceError)
           ELSE IF table = Nil THEN Return(Error("table not found at index " \o ToString(tableStartIndex)))
           ELSE IF BoundsCheck(table, row, col) = "panic" THEN Return(Panic)
           ELSE IF BoundsCheck(table, row, col) = "out"
                THEN Return(Error("row/col out of bounds"))
           ELSE BatchUpdate(<<[type |-> "UpdateTableCellStyle",
                               fields |-> "backgroundColor",
                               backgroundColor |-> ParseColor(args.color),
                               columnIndex |-> col, rowIndex |-> row,
                               columnSpan |-> 1, rowSpan |-> 1,
                               tableStartIndex |-> tableStartIndex]>>,
                            "error styling cell")

\* table.TableRows[row].TableCells[col] and cell.Content[0] can be indexed
CellIndexable(table, row, col) ==
    /\ row >= 0 /\ row < Len(table.tableRows)
    /\ col >= 0 /\ col < Len(table.tableRows[row + 1].tableCells)
    /\ table.tableRows[row + 1].tableCells[col + 1].content # <<>>

\* runUpdateTableCell
runUpdateTableCell ==
    /\ Handler("update-table-cell") /\ Done
    /\ LET tableStartIndex == ParseInt(args.tableStartIndex).value
           row == ParseInt(args.row).value
           col == ParseInt(args.col).value
           table == FindTable(doc, tableStartIndex)
           cell == table.tableRows[row + 1].tableCells[col + 1]
           startIdx == cell.content[1].startIndex
           endIdx == cell.content[Len(cell.content)].endIndex
       IN  IF CellArgsError # Nil THEN Return(CellArgsError)
           ELSE IF ServiceError # Nil THEN Return(ServiceError)
           ELSE IF table = Nil THEN Return(Error("table not found at index " \o ToString(tableStartIndex)))
           ELSE IF BoundsCheck(table, row, col) = "panic" THEN Return(Panic)
           ELSE IF BoundsCheck(table, row, col) = "out"
                THEN Return(Error("row/col out of bounds"))
           ELSE IF ~CellIndexable(table, row, col) THEN Return(Panic)
           ELSE BatchUpdate(<<DeleteContentRangeRequest(startIdx, endIdx - 1),
                              InsertTextRequest(startIdx, args.text)>>,
                            "error updating cell")

CreateHeaderRequest(headerType) == [type |-> "CreateHeader", headerType |-> headerType]

\* runAddHeader: the batch holds a CreateHeader only when the document has no
\* header, and is sent in either case
runAddHeader ==
    /\ Handler("add-header") /\ Done
    /\ LET headerID == IF doc.headers # {} THEN CHOOSE id \in doc.headers : TRUE
                       ELSE ""
           reqs == IF headerID = "" THEN <<CreateHeaderRequest("DEFAULT")>> ELSE <<>>
       IN  IF ServiceError # Nil THEN Return(ServiceError)
           ELSE BatchUpdate(reqs, "error adding header")

\* the document service.Documents.Create(doc).Do() leaves on the remote side
CreatedDocument(title) == [title |-> title, parents |-> <<>>, revision |-> 0]

\* driveService.Files.Update(id, &drive.File{}).AddParents(folderID).Do()
MovedToFolder(d, folderID) == [d EXCEPT !.parents = Append(@, folderID)]

\* runCreate: Documents.Create, then with --folder the Drive service and
\* Files.Update; requests holds the service calls that were made
runCreate ==
    /\ Handler("create") /\ Done
    /\ calls' = calls
    /\ LET create == [type |-> "Documents.Create", title |-> args.title]
           move == [type |-> "Files.Update", addParents |-> args.folder]
           created == CreatedDocument(args.title)
       IN  IF args.env = "auth-fails"
           THEN result' = Error("auth") /\ doc' = doc /\ requests' = <<>>
           ELSE IF args.env = "create-fails"
           THEN /\ result' = Error("error creating document")
                /\ doc' = doc /\ requests' = <<create>>
           ELSE IF args.folder = <<>>
           THEN result' = Ok /\ doc' = created /\ requests' = <<create>>
           ELSE IF args.env = "drive-auth-fails"
           THEN result' = Error("auth") /\ doc' = created /\ requests' = <<create>>
           ELSE IF args.env = "move-fails"
           THEN /\ result' = Error("error moving to folder")
                /\ doc' = created /\ requests' = <<create, move>>
           ELSE /\ result' = Ok
                /\ doc' = MovedToFolder(created, args.folder)
                /\ requests' = <<create, move>>

\* the two index arguments of the range commands, parsed in order
RangeArgsError ==
    IF ParseInt(args.startIndex).err THEN Error("invalid start index")
    ELSE IF ParseInt(args.endIndex).err THEN Error("invalid end index")
    ELSE Nil

\* a handler that parses a range, obtains the service and sends one request
\* built from the range, without fetching the document
RangeCommand(name, request, message) ==
    /\ Handler(name) /\ Done
    /\ IF RangeArgsError # Nil THEN Return(RangeArgsError)
       ELSE IF args.env = "auth-fails" THEN Return(Error("auth"))
       ELSE BatchUpdate(<<request>>, message)

\* runDeleteText
runDeleteText ==
    RangeCommand("delete-text",
                 DeleteContentRangeRequest(ParseInt(args.startIndex).value,
                                           ParseInt(args.endIndex).value),
                 "error deleting text")

\* strings.ToUpper on the runes of the model
ToUpper(s) ==
    [k \in 1..Len(s) |->
        IF \E j \in DOMAIN Uppers : Lowers[j] = s[k]
        THEN Uppers[CHOOSE j \in DOMAIN Uppers : Lowers[j] = s[k]] ELSE s[k]]

validAlignments ==
    { <<"C", "E", "N", "T", "E", "R">>, <<"E", "N", "D">>,
      <<"J", "U", "S", "T", "I", "F", "I", "E", "D">>, <<"S", "T", "A", "R", "T">> }

\* fmt.Errorf("invalid alignment: %s (must be START, CENTER, END, or JUSTIFIED)", alignment)
InvalidAlignment(alignment) ==
    [status |-> "error", message |-> "invalid alignment: ", name |-> alignment]

\* runAlignParagraph
runAlignParagraph ==
    /\ Handler("align-paragraph") /\ Done
    /\ LET alignment == ToUpper(args.alignment)
       IN  IF RangeArgsError # Nil THEN Return(RangeArgsError)
           ELSE IF alignment \notin validAlignments THEN Return(InvalidAlignment(alignment))
           ELSE IF args.env = "auth-fails" THEN Return(Error("auth"))
           ELSE BatchUpdate(<<[type |-> "UpdateParagraphStyle", fields |-> "alignment",
                               alignment |-> alignment,
                               startIndex |-> ParseInt(args.startIndex).value,
                               endIndex |-> ParseInt(args.endIndex).value]>>,
                            "error aligning paragraph")

\* createList(args, listType)
createList(name, listType) ==
    RangeCommand(name,
                 [type |-> "CreateParagraphBullets",
                  bulletPreset |-> listType \o "_DISC_CIRCLE_SQUARE",
                  startIndex |-> ParseInt(args.startIndex).value,
                  endIndex |-> ParseInt(args.endIndex).value],
                 "error creating list")

runCreateBullets == createList("create-bullets", "BULLET")

runCreateNumbered == createList("create-numbered", "NUMBER")

\* runRemoveBullets
runRemoveBullets ==
    RangeCommand("remove-bullets",
                 [type |-> "DeleteParagraphBullets",
                  startIndex |-> ParseInt(args.startIndex).value,
                  endIndex |-> ParseInt(args.endIndex).value],
                 "error removing bullets")

\* runInsertTable
runInsertTable ==
    /\ Handler("insert-table") /\ Done
    /\ IF ParseInt(args.index).err THEN Return(Error("invalid index"))
       ELSE IF ParseInt(args.rows).err THEN Return(Error("invalid rows"))
       ELSE IF ParseInt(args.cols).err THEN Return(Error("invalid cols"))
       ELSE IF args.env = "auth-fails" THEN Return(Error("auth"))
       ELSE BatchUpdate(<<[type |-> "InsertTable", index |-> ParseInt(args.index).value,
                           rows |-> ParseInt(args.rows).value,
                           columns |-> ParseInt(args.cols).value]>>,
                        "error inserting table")

\* &docs.Dimension{Magnitude: ..., Unit: "PT"}
Points(magnitude) == [magnitude |-> magnitude, unit |-> "PT"]

\* runInsertImage: the size is set only when both --width and --height are
\* above 0
runInsertImage ==
    /\ Handler("insert-image") /\ Done
    /\ IF ParseInt(args.index).err THEN Return(Error("invalid index"))
       ELSE IF args.env = "auth-fails" THEN Return(Error("auth"))
       ELSE BatchUpdate(<<[type |-> "InsertInlineImage",
                           index |-> ParseInt(args.index).value, uri |-> args.imageURL,
                           objectSize |-> IF args.width > 0 /\ args.height > 0
                                          THEN [height |-> Points(args.height),
                                                width |-> Points(args.width)]
                                          ELSE Nil]>>,
                        "error inserting image")

CreateFooterRequest(footerType) == [type |-> "CreateFooter", footerType |-> footerType]

\* runAddFooter: the document is not fetched
runAddFooter ==
    /\ Handler("add-footer") /\ Done
    /\ IF args.env = "auth-fails" THEN Return(Error("auth"))
       ELSE BatchUpdate(<<CreateFooterRequest("DEFAULT")>>, "error adding footer")

\* the file driveService.Files.Copy(sourceDocID, copyMetadata).Do() leaves on
\* the remote side
CopiedFile(source, name, parents) ==
    [title |-> name, body |-> source.body, parents |-> parents]

\* runCopy: one Files.Copy call; doc holds the source and the copy
runCopy ==
    /\ Handler("copy") /\ Done
    /\ calls' = calls
    /\ LET parents == IF args.folder # <<>> THEN <<args.folder>> ELSE <<>>
           copy == [type |-> "Files.Copy", name |-> args.newTitle, parents |-> parents]
       IN  IF args.env = "drive-auth-fails"
           THEN result' = Error("auth") /\ doc' = doc /\ requests' = <<>>
           ELSE IF args.env = "copy-fails"
           THEN /\ result' = Error("error copying document")
                /\ doc' = doc /\ requests' = <<copy>>
           ELSE /\ result' = Ok
                /\ doc' = [doc EXCEPT !.copy = CopiedFile(doc.source, args.newTitle,
                                                           parents)]
                /\ requests' = <<copy>>

\* runRead: the markdown of the fetched document is printed
runRead ==
    /\ Handler("read") /\ Done
    /\ Return(IF args.env = "auth-fails" THEN Error("auth")
              ELSE IF args.env = "get-fails" THEN Error("error reading document")
              ELSE DocsToMarkdown(doc))

\* runInfo: the title and the revision of the fetched document are printed
runInfo ==
    /\ Handler("info") /\ Done
    /\ Return(IF ServiceError # Nil THEN ServiceError
              ELSE [status |-> "ok",
                    info |-> [title |-> doc.title, revisionId |-> doc.revision]])

(***************************************************************************)
(* The body of a document as the service indexes it, and the effect of a   *)
(* batch on it.  Index i of the body is unit i: a rune of a paragraph, or  *)
(* the structural unit that opens a table, a row or a cell, or closes a    *)
(* table.  The section break at index 0 is not part of the sequence.       *)
(***************************************************************************)
RECURSIVE ParagraphsUnits(_)
ParagraphsUnits(content) ==
    IF content = <<>> THEN <<>>
    ELSE RunsText(Head(content).paragraph.elements) \o ParagraphsUnits(Tail(content))

RECURSIVE CellsUnits(_)
CellsUnits(cells) ==
    IF cells = <<>> THEN <<>>
    ELSE <<"<cell>">> \o ParagraphsUnits(Head(cells).content) \o CellsUnits(Tail(cells))

RECURSIVE RowsUnits(_)
RowsUnits(rows) ==
    IF rows = <<>> THEN <<>>
    ELSE <<"<row>">> \o CellsUnits(Head(rows).tableCells) \o RowsUnits(Tail(rows))

RECURSIVE BodyUnits(_)
\* the units of doc.Body.Content from index 1 on
BodyUnits(content) ==
    IF content = <<>> THEN <<>>
    ELSE LET element == Head(content)
         IN  (IF element.paragraph # Nil THEN RunsText(element.paragraph.elements)
              ELSE IF element.table # Nil
                   THEN <<"<table>">> \o RowsUnits(element.table.tableRows)
                            \o <<"<end>">>
              ELSE <<>>) \o BodyUnits(Tail(content))

\* the paragraph styles the service knows
NamedStyleTypes ==
    {"NORMAL_TEXT", "TITLE", "SUBTITLE"} \cup {"HEADING_" \o ToString(n) : n \in 1..6}

\* One request applied by the service to a body of n units, whose final
\* endIndex is n + 1.  A deletion is refused when its range is empty, leaves
\* the body or takes the final newline; an insertion when its index is
\* outside the body; a style request when its range is empty or leaves the
\* body, or when it names a paragraph style the service does not know.  A
\* style request leaves the units as they are.
ApplyRequest(units, request) ==
    LET n == Len(units)
    IN  IF request.type = "DeleteContentRange"
        THEN IF 1 <= request.startIndex /\ request.startIndex < request.endIndex
                   /\ request.endIndex <= n
             THEN [ok |-> TRUE,
                   units |-> SubSeq(units, 1, request.startIndex - 1)
                                 \o SubSeq(units, request.endIndex, n)]
             ELSE [ok |-> FALSE, units |-> units]
        ELSE IF request.type = "InsertText"
        THEN IF 1 <= request.index /\ request.index <= n
             THEN [ok |-> TRUE,
                   units |-> SubSeq(units, 1, request.index - 1) \o request.text
                                 \o SubSeq(units, request.index, n)]
             ELSE [ok |-> FALSE, units |-> units]
        ELSE [ok |-> /\ 1 <= request.startIndex
                     /\ request.startIndex < request.endIndex
                     /\ request.endIndex <= n + 1
                     /\ request.type = "UpdateParagraphStyle"
                           => request.namedStyleType \in NamedStyleTypes,
              units |-> units]

RECURSIVE ApplyBatch(_, _)
\* the requests of one batch applied in order; nothing is kept of a batch
\* with a refused request
ApplyBatch(units, reqs) ==
    IF reqs = <<>> THEN [ok |-> TRUE, units |-> units]
    ELSE LET first == ApplyRequest(units, Head(reqs))
         IN  IF first.ok THEN ApplyBatch(first.units, Tail(reqs))
             ELSE [ok |-> FALSE, units |-> units]

(***************************************************************************)
(* SpecCli: one command run against a fetched document.                    *)
(***************************************************************************)
MaxRow == 2

SectionBreak == [startIndex |-> 0, endIndex |-> 1, paragraph |-> Nil, table |-> Nil]

\* a document of the service: a section break, then the blocks
ServiceDoc(title, blocks) ==
    [title |-> title, body |-> [content |-> <<SectionBreak>> \o LayoutBlocks(blocks, 1)],
     revision |-> 0]

Str_Intro == <<"I", "n", "t", "r", "o">>
Str_intro_details == <<"i", "n", "t", "r", "o", " ", "d", "e", "t", "a", "i", "l", "s">>
Str_INTRO == <<"I", "N", "T", "R", "O">>
Str_End == <<"E", "n", "d">>

Cell(text) == <<PlainParagraph(NoStyle, text)>>

CliDocs ==
    { ServiceDoc(<<"T">>, <<PlainParagraph("NORMAL_TEXT", <<>>)>>),
      ServiceDoc(<<"T">>, <<PlainParagraph("HEADING_1", Str_Intro),
                            PlainParagraph("NORMAL_TEXT", <<"x">>),
                            PlainParagraph("HEADING_2", Str_intro_details),
                            PlainParagraph("NORMAL_TEXT", <<"y">>)>>),
      ServiceDoc(<<"T">>, <<PlainParagraph("TITLE", Str_Intro),
                            [rows |-> << <<Cell(<<"a">>), Cell(<<>>)>>,
                                         <<Cell(<<"c">>), Cell(<<"d">>)>> >>],
                            PlainParagraph("HEADING_1", Str_End)>>),
      ServiceDoc(<<"T">>, <<[rows |-> << <<Cell(<<"a">>), Cell(<<"b">>)>>,
                                         <<Cell(<<"c">>)>> >>],
                            PlainParagraph("NORMAL_TEXT", <<>>)>>),
      ServiceDoc(<<"T">>, <<[rows |-> <<>>], PlainParagraph("NORMAL_TEXT", <<>>)>>),
      ServiceDoc(<<"T">>, <<PlainParagraph("HEADING_2", Str_Intro),
                            PlainParagraph("NORMAL_TEXT", <<"x", "y">>),
                            PlainParagraph("NORMAL_TEXT", <<"z">>),
                            PlainParagraph("HEADING_1", Str_INTRO),
                            PlainParagraph("NORMAL_TEXT", <<"w">>)>>) }

\* doc.Headers: the ids of the headers of a fetched document; a nil map and an
\* empty one are both the empty set
WithHeaders(d, headers) ==
    [title |-> d.title, body |-> d.body, revision |-> d.revision, headers |-> headers]

HeaderDocs == {WithHeaders(d, h) : d \in CliDocs, h \in {{}, {"kix.hdr"}}}

\* the value of --folder; "" when the flag is not given
FolderFlags == {<<>>, <<"f">>}

\* index, row and column arguments of the commands that do not fetch the
\* document
RangeArgs == {IntText(1), IntText(5), <<"x">>}

AlignmentArgs == {<<"c", "e", "n", "t", "e", "r">>, <<"S", "T", "A", "R", "T">>,
                  <<"l", "e", "f", "t">>, <<EAcute>>}

SectionNames == {Str_INTRO, Str_intro_details, <<"i", "n", "t">>, Str_End, <<"z">>}

\* two italic spans before a bold one
Str_italics_then_bold ==
    <<"*", "a", "*", " ", "*", "b", "*", " ", "*", "*", "c", "*", "*">>

MarkdownFiles ==
    { <<"x">>, <<"#", " ", "h", "\n", "*", "*", "b", "*", "*">>, <<>>,
      <<"a", "\n", "\n", "_", EAcute, "_", "\n">>, Str_italics_then_bold }

\* the files given to the handlers of package main
LegacyMarkdownFiles == MarkdownFiles \cup {<<"_", "_", "a", "_", "_">>}

ColorFlags ==
    { <<>>, <<"#", "f", "f", "0", "0", "8", "0">>, <<"F", "F", "0", "0", "8", "0">>,
      <<"f", "f", "0">>, <<"r", "e", "d">>, <<"g", "g", "g", "g", "g", "g">>,
      <<"#", "f", "f", "0", "0", "z", "z">> }

IndexArgs == {IntText(n) : n \in -1..MaxRow} \cup {<<"x">>}

TableStartArgs == {IntText(1), IntText(7), <<"x">>}

InitCli ==
    /\ pc = "start"
    /\ currentIndex = 0
    /\ requests = <<>>
    /\ calls = <<>>
    /\ result = Running
    /\ \/ /\ cmd = "insert-after"
          /\ args \in [sectionName : SectionNames, text : {<<"t">>},
                       env : {"ok", "auth-fails", "get-fails", "update-fails"}]
       \/ /\ cmd = "update-section"
          /\ args \in [sectionName : SectionNames, markdown : MarkdownFiles,
                       env : {"ok", "read-fails", "auth-fails", "get-fails",
                              "update-fails"}]
       \/ /\ cmd = "set-markdown"
          /\ args \in [markdown : MarkdownFiles,
                       env : {"ok", "read-fails", "auth-fails", "get-fails",
                              "update-fails"}]
       \/ /\ cmd = "format-text"
          /\ args \in [startIndex : {IntText(1), <<"x">>}, endIndex : {IntText(5)},
                       bold : BOOLEAN, italic : BOOLEAN, underline : BOOLEAN,
                       color : ColorFlags, size : {0, 12},
                       env : {"ok", "auth-fails", "update-fails"}]
       \/ /\ cmd = "style-table-cell"
          /\ args \in [tableStartIndex : TableStartArgs, row : IndexArgs,
                       col : IndexArgs, color : ColorFlags,
                       env : {"ok", "get-fails", "update-fails"}]
       \/ /\ cmd = "update-table-cell"
          /\ args \in [tableStartIndex : TableStartArgs, row : IndexArgs,
                       col : IndexArgs, text : {<<"t">>},
                       env : {"ok", "get-fails", "update-fails"}]
       \/ /\ cmd = "add-header"
          /\ args \in [text : {<<"t">>},
                       env : {"ok", "auth-fails", "get-fails", "update-fails"}]
       \/ /\ cmd = "create"
          /\ args \in [title : {<<"T">>}, folder : FolderFlags,
                       env : {"ok", "auth-fails", "create-fails", "drive-auth-fails",
                              "move-fails"}]
       \/ /\ cmd \in {"delete-text", "create-bullets", "create-numbered",
                      "remove-bullets"}
          /\ args \in [startIndex : RangeArgs, endIndex : RangeArgs,
                       env : {"ok", "auth-fails", "update-fails"}]
       \/ /\ cmd = "align-paragraph"
          /\ args \in [startIndex : RangeArgs, endIndex : RangeArgs,
                       alignment : AlignmentArgs,
                       env : {"ok", "auth-fails", "update-fails"}]
       \/ /\ cmd = "insert-table"
          /\ args \in [index : RangeArgs, rows : RangeArgs, cols : RangeArgs,
                       env : {"ok", "auth-fails", "update-fails"}]
       \/ /\ cmd = "insert-image"
          /\ args \in [index : RangeArgs, imageURL : {Url}, width : {0, 100},
                       height : {0, 50}, env : {"ok", "auth-fails", "update-fails"}]
       \/ /\ cmd = "add-footer"
          /\ args \in [text : {<<"t">>}, env : {"ok", "auth-fails", "update-fails"}]
       \/ /\ cmd = "copy"
          /\ args \in [newTitle : {<<"N">>}, folder : FolderFlags,
                       env : {"ok", "drive-auth-fails", "copy-fails"}]
       \/ /\ cmd \in {"read", "info"}
          /\ args \in [env : {"ok", "auth-fails", "get-fails"}]
    /\ doc \in IF cmd = "add-header" THEN HeaderDocs
               ELSE IF cmd = "create" THEN {NoDoc}
               ELSE IF cmd = "copy" THEN {[source |-> d, copy |-> NoDoc] : d \in CliDocs}
               ELSE CliDocs

NextCli ==
    \/ runInsertAfter
    \/ runUpdateSection
    \/ runSetMarkdown
    \/ runFormatText
    \/ runStyleTableCell
    \/ runUpdateTableCell
    \/ runAddHeader
    \/ runCreate
    \/ runDeleteText
    \/ runAlignParagraph
    \/ runCreateBullets
    \/ runCreateNumbered
    \/ runRemoveBullets
    \/ runInsertTable
    \/ runInsertImage
    \/ runAddFooter
    \/ runCopy
    \/ runRead
    \/ runInfo

SpecCli == InitCli /\ [][NextCli]_vars

(***************************************************************************)
(* SpecLegacy: the current and the legacy compiler on the same arguments,  *)
(* and the two handlers of package main that differ from those of         *)
(* internal/cli.                                                           *)
(***************************************************************************)
InitLegacy ==
    /\ pc = "start"
    /\ \/ /\ cmd = "compile-both"
          /\ args \in [markdown : MarkdownInputs, startIndex : StartIndices]
          /\ doc = NoDoc
          /\ currentIndex = args.startIndex
       \/ /\ cmd = "legacy update-section"
          /\ args \in [sectionName : SectionNames, markdown : LegacyMarkdownFiles,
                       env : {"ok", "read-fails", "auth-fails", "get-fails",
                              "update-fails"}]
          /\ doc \in CliDocs
          /\ currentIndex = 0
       \/ /\ cmd = "legacy set-markdown"
          /\ args \in [markdown : LegacyMarkdownFiles,
                       env : {"ok", "read-fails", "auth-fails", "get-fails",
                              "update-fails"}]
          /\ doc \in CliDocs
          /\ currentIndex = 0
    /\ requests = <<>>
    /\ calls = <<>>
    /\ result = Running

\* MarkdownToDocsRequests returns
CompileCurrent ==
    /\ cmd = "compile-both" /\ pc = "start"
    /\ requests' = MarkdownToDocsRequests(args.markdown, args.startIndex)
    /\ pc' = "legacy"
    /\ UNCHANGED <<cmd, args, doc, currentIndex, calls, result>>

\* markdownToDocsRequests returns
CompileLegacy ==
    /\ cmd = "compile-both" /\ pc = "legacy"
    /\ ~markdownToDocsRequests(args.markdown, args.startIndex).panic
    /\ result' = [status |-> "ok",
                  requests |-> markdownToDocsRequests(args.markdown,
                                                      args.startIndex).requests]
    /\ pc' = "done"
    /\ UNCHANGED <<cmd, args, doc, currentIndex, requests, calls>>

\* markdownToDocsRequests panics
LegacyPanics ==
    /\ cmd = "compile-both" /\ pc = "legacy"
    /\ markdownToDocsRequests(args.markdown, args.startIndex).panic
    /\ result' = Panic
    /\ pc' = "done"
    /\ UNCHANGED <<cmd, args, doc, currentIndex, requests, calls>>

NextLegacy ==
    \/ CompileCurrent
    \/ CompileLegacy
    \/ LegacyPanics
    \/ main_runUpdateSection
    \/ main_runSetMarkdown

SpecLegacy == InitLegacy /\ [][NextLegacy]_vars

(***************************************************************************)
(* SpecStructure: get-structure on a fetched document, and FindSection on  *)
(* a document and a name.                                                  *)
(***************************************************************************)
MaxSections == 2

Str_Intro_spaced == <<" ", "I", "n", "t", "r", "o", " ">>

HeadingTexts == {Str_Intro, Str_intro_details, Str_INTRO, Str_Intro_spaced, <<>>}

StructureStyles == {"HEADING_1", "HEADING_2", "HEADING_6", "NORMAL_TEXT", "TITLE", NoStyle}

StructureParagraphs ==
    {PlainParagraph(st, t) : st \in StructureStyles, t \in HeadingTexts}

\* a heading of several runs, one of them styled and one without a text run
Str_tro == <<"t", "r", "o", "\n">>
SplitHeading ==
    Paragraph("HEADING_3", <<TextRun(<<"I", "n">>, TextStyle(TRUE, FALSE, Nil)),
                             [textRun |-> Nil], TextRun(Str_tro, Nil)>>)

StructureDocs ==
    {ServiceDoc(<<"T">>, blocks \o <<PlainParagraph("NORMAL_TEXT", <<>>)>>) :
        blocks \in UNION {[1..k -> StructureParagraphs] : k \in 0..MaxSections}}
    \cup { ServiceDoc(<<"T">>, <<PlainParagraph("HEADING_1", Str_Intro),
                                 PlainParagraph("NORMAL_TEXT", <<"x">>),
                                 PlainParagraph("HEADING_2", Str_intro_details),
                                 PlainParagraph("", Str_Intro),
                                 PlainParagraph("HEADING_4", Str_INTRO),
                                 PlainParagraph("NORMAL_TEXT", <<>>)>>),
           ServiceDoc(<<"T">>, <<[rows |-> << <<Cell(<<"a">>),
                                               <<PlainParagraph("HEADING_1", Str_Intro)>> >> >>],
                                 SplitHeading,
                                 PlainParagraph("HEADING_5", Str_Intro_spaced)>>) }

FindNames == {Str_INTRO, Str_intro_details, <<"i", "n", "t">>,
              <<"I", "n", "t", "r", "o", "s">>, <<>>}

InitStructure ==
    /\ doc \in StructureDocs
    /\ pc = "start"
    /\ currentIndex = 0
    /\ requests = <<>>
    /\ calls = <<>>
    /\ result = Running
    /\ \/ /\ cmd = "get-structure"
          /\ args \in [env : {"ok", "get-fails"}]
       \/ /\ cmd = "find-section"
          /\ args \in [sectionName : FindNames]

\* runGetStructure: the sections are printed
runGetStructure ==
    /\ Handler("get-structure") /\ Done
    /\ Return(IF ServiceError # Nil THEN ServiceError
              ELSE [status |-> "ok", sections |-> GetStructure(doc)])

\* FindSection returns
FindSectionCall ==
    /\ Handler("find-section") /\ Done
    /\ Return([status |-> "ok", section |-> FindSection(doc, args.sectionName)])

NextStructure == runGetStructure \/ FindSectionCall

SpecStructure == InitStructure /\ [][NextStructure]_vars

(***************************************************************************)
(* SpecColor: ParseColor on a colour string.                               *)
(***************************************************************************)
MaxColorLen == 6

ColorRunes == {"0", "8", "f", "g"}

ColorStrings ==
    LET bodies == UNION {[1..k -> ColorRunes] : k \in 0..MaxColorLen}
    IN  bodies \cup {<<"#">> \o s : s \in bodies} \cup {<<"#", "#">> \o s : s \in bodies}
            \cup ColorFlags
            \cup { <<EAcute, "f", "f", "f", "f">>, <<"-", "f", "-", "f", "-", "f">>,
                   <<" ", "f", "f", "f", "f", "f">>, <<"f", "f", "_", "0", "0", "0">>,
                   <<"f", "_", "0", "0", "0", "0">>,
                   <<"f", "f", "0", "0", " ", "8">> }

InitColor ==
    /\ cmd = "parse-color"
    /\ args \in [hexColor : ColorStrings]
    /\ doc = NoDoc
    /\ pc = "start"
    /\ currentIndex = 0
    /\ requests = <<>>
    /\ calls = <<>>
    /\ result = Running

\* ParseColor returns
ParseColorCall ==
    /\ cmd = "parse-color" /\ pc = "start"
    /\ result' = [status |-> "ok", color |-> ParseColor(args.hexColor)]
    /\ pc' = "done"
    /\ UNCHANGED <<cmd, args, doc, currentIndex, requests, calls>>

NextColor == ParseColorCall

SpecColor == InitColor /\ [][NextColor]_vars

(***************************************************************************)
(* Properties of the compiler (SpecCompile).                               *)
(***************************************************************************)
\* a line of the input has been compiled; LastRaw is that line
JustCompiled == cmd = "compile" /\ args.lineNo > 1
LastRaw == args.lines[args.lineNo - 1]

\* the requests of the last compiled line: its InsertText and what follows it
LastInsertPos ==
    CHOOSE p \in 1..Len(requests) :
        /\ requests[p].type = "InsertText"
        /\ \A q \in (p + 1)..Len(requests) : requests[q].type # "InsertText"
LineInsert == requests[LastInsertPos]
LineStyles == SubSeq(requests, LastInsertPos + 1, Len(requests))

\* the runes of text at offsets [a, b), or a marker value when [a, b) is not
\* a range of the text
Addressed(text, a, b) ==
    IF 0 <= a /\ a <= b /\ b <= Len(text) THEN SubSeq(text, a + 1, b)
    ELSE <<"<outside the text>">>

\* the bold matches of a line, its bold-stripped text and the italic matches of that
BoldOf(line) == FindAllStringSubmatchIndex(2, line)
BoldStripped(line) == ReplaceAllString(2, line)
ItalicOf(line) == FindAllStringSubmatchIndex(1, BoldStripped(line))

\* the content between the markers of the k-th style request of a line
SpanContent(line, k) ==
    IF k <= Len(BoldOf(line)) THEN MatchContent(line, BoldOf(line)[k])
    ELSE MatchContent(BoldStripped(line), ItalicOf(line)[k - Len(BoldOf(line))])

StyleRangesAddressContent(line) ==
    /\ Len(LineStyles) = Len(BoldOf(line)) + Len(ItalicOf(line))
    /\ \A k \in 1..Len(LineStyles) :
          Addressed(LineInsert.text, LineStyles[k].startIndex - LineInsert.index,
                    LineStyles[k].endIndex - LineInsert.index) = SpanContent(line, k)

\* C1: for every non-heading line and every bold or italic style request
\* emitted for it, the range, taken relative to the index of the line's
\* InsertText, addresses in the inserted text exactly the content that stood
\* between the matched markers, for every mix and order of spans.
C1_StyleRangesAddressStrippedText ==
    (JustCompiled /\ IsParagraphLine(LastRaw))
        => StyleRangesAddressContent(TrimSpace(LastRaw))

\* the rune offset, in the text stripped of the n-rune markers, of the content
\* of a match: the length of the stripped text that precedes the match
StrippedOffset(n, text, match) ==
    Len(ReplaceAllString(n, SliceBytes(text, 0, match[1])))

\* the line has a bold span, and every italic span starts, in the
\* bold-stripped text, at or after the end of the last bold content
BoldBeforeItalic(line) ==
    LET bm == BoldOf(line)
        last == bm[Len(bm)]
        boldEnd == StrippedOffset(2, line, last) + Len(MatchContent(line, last))
    IN  /\ bm # <<>>
        /\ \A k \in 1..Len(ItalicOf(line)) :
              MatchStartRunes(BoldStripped(line), ItalicOf(line)[k][1]) >= boldEnd

RECURSIVE DropRunes(_, _, _)
\* text without the runes at the positions of drop
DropRunes(text, k, drop) ==
    IF k > Len(text) THEN <<>>
    ELSE (IF k \in drop THEN <<>> ELSE <<text[k]>>) \o DropRunes(text, k + 1, drop)

\* the rune positions of the n-rune markers of the matches
MarkerPositions(n, text, matches) ==
    UNION { LET from == Len(SliceBytes(text, 0, matches[k][1]))
                to == Len(SliceBytes(text, 0, matches[k][2]))
            IN  ((from + 1)..(from + n)) \cup ((to - n + 1)..to)
            : k \in 1..Len(matches) }

\* the line with the markers of its bold spans, then of its italic spans, removed
MarkersRemoved(line) ==
    LET plain == DropRunes(line, 1, MarkerPositions(2, line, BoldOf(line)))
    IN  DropRunes(plain, 1, MarkerPositions(1, plain, ItalicOf(line)))

Str_ab_bold == <<"*", "*", "a", "b", "*", "*">>

\* C2: for a line whose bold spans all come before its italic spans, compiled
\* at cursor s, the inserted text is the line without its markers plus one
\* newline, each bold range is [s + p, s + p + runeLength(content)) with p the
\* rune offset of the content in the stripped text, each italic range is the
\* same on the bold-stripped text, and every range addresses its content;
\* "**ab**" gives "ab\n" with bold [s, s+2), "**bold** and *italic*" at 5 gives
\* "bold and italic\n", bold [5,9) and italic [14,20).
C2_BoldThenItalicRanges ==
    /\ (JustCompiled /\ IsParagraphLine(LastRaw) /\ BoldBeforeItalic(TrimSpace(LastRaw)))
        => LET line == TrimSpace(LastRaw)
               s == LineInsert.index
               nb == Len(BoldOf(line))
           IN  /\ LineInsert.text = MarkersRemoved(line) \o <<"\n">>
               /\ Len(LineStyles) = nb + Len(ItalicOf(line))
               /\ \A k \in 1..Len(LineStyles) :
                     LET p == IF k <= nb THEN StrippedOffset(2, line, BoldOf(line)[k])
                              ELSE StrippedOffset(1, BoldStripped(line),
                                                  ItalicOf(line)[k - nb])
                     IN  /\ LineStyles[k].fields = (IF k <= nb THEN "bold" ELSE "italic")
                         /\ LineStyles[k].startIndex = s + p
                         /\ LineStyles[k].endIndex = s + p + Len(SpanContent(line, k))
               /\ StyleRangesAddressContent(line)
    /\ (cmd = "compile" /\ pc = "done" /\ args.markdown = Str_ab_bold)
        => requests = <<InsertTextRequest(args.startIndex, <<"a", "b", "\n">>),
                        UpdateTextStyleRequest(args.startIndex, args.startIndex + 2,
                                               "bold")>>
    /\ (cmd = "compile" /\ pc = "done" /\ args.markdown = Str_bold_and_italic
            /\ args.startIndex = 5)
        => requests =
             <<InsertTextRequest(5, <<"b", "o", "l", "d", " ", "a", "n", "d", " ",
                                      "i", "t", "a", "l", "i", "c", "\n">>),
               UpdateTextStyleRequest(5, 9, "bold"),
               UpdateTextStyleRequest(14, 20, "italic")>>

\* a line with a bold span followed by an italic span has been compiled at 5
C2_Witness ==
    /\ cmd = "compile" /\ pc = "done"
    /\ args.markdown = Str_bold_and_italic /\ args.startIndex = 5
    /\ Len(requests) = 3

\* the InsertText requests among the requests built so far
InsertsOf(reqs) == SelectSeq(reqs, LAMBDA r : r.type = "InsertText")

\* C3: the InsertText requests are contiguous in code points: the first is at
\* the start index and each later one is at the index of the previous one plus
\* the number of code points of its text, newline included; the cursor itself
\* is past the last inserted text.
C3_InsertsContiguousInRunes ==
    cmd = "compile" =>
        LET ins == InsertsOf(requests)
        IN  /\ ins # <<>> => ins[1].index = args.startIndex
            /\ \A k \in 2..Len(ins) : ins[k].index = ins[k - 1].index + Len(ins[k - 1].text)
            /\ currentIndex = IF ins = <<>> THEN args.startIndex
                              ELSE ins[Len(ins)].index + Len(ins[Len(ins)].text)

\* a text with a multi-byte rune on a line that is not the last has been compiled
C3_Witness ==
    /\ cmd = "compile" /\ pc = "done"
    /\ Len(InsertsOf(requests)) >= 2
    /\ EAcute \in {InsertsOf(requests)[1].text[j] : j \in 1..Len(InsertsOf(requests)[1].text)}
    /\ InsertsOf(requests)[2].index = args.startIndex + Len(InsertsOf(requests)[1].text)

\* the number of '#' a line starts with
HashCount(line) ==
    CHOOSE n \in 0..Len(line) :
        /\ \A j \in 1..n : line[j] = "#"
        /\ n < Len(line) => line[n + 1] # "#"

\* C4: a line that starts with n >= 1 '#' followed by the heading text t,
\* compiled at cursor c, appends InsertText(c, t + newline) and then
\* SetParagraphStyle [c, c + runeLength(t) + 1) with style HEADING_n, n the
\* number of leading '#' with no upper clamp, and advances the cursor by
\* runeLength(t) + 1; "###### Six" at cursor 1 is HEADING_6 over [1, 5).
C4_HeadingLine ==
    [][ (HasLine /\ IsHeadingLine(ThisLine)) =>
          LET line == TrimSpace(ThisLine)
              n == HashCount(line)
              t == TrimSpace(SubSeq(line, n + 1, Len(line)))
              c == currentIndex
          IN  /\ n >= 1
              /\ requests' = requests \o
                    <<InsertTextRequest(c, t \o <<"\n">>),
                      UpdateParagraphStyleRequest(c, c + Len(t) + 1,
                                                  "HEADING_" \o ToString(n))>>
              /\ currentIndex' = c + Len(t) + 1
              /\ (ThisLine = <<"#", "#", "#", "#", "#", "#", " ", "S", "i", "x">> /\ c = 1)
                    => requests'[2] = UpdateParagraphStyleRequest(1, 5, "HEADING_6")
      ]_vars

\* a heading line of more than six '#' has been compiled
C4_Witness ==
    /\ JustCompiled /\ IsHeadingLine(LastRaw)
    /\ HashCount(TrimSpace(LastRaw)) = 7
    /\ requests[Len(requests)].type = "UpdateParagraphStyle"
    /\ requests[Len(requests)].namedStyleType = "HEADING_7"

\* C16: a blank line (empty, or white space only) met at cursor c appends
\* exactly InsertText(c, newline), no style request, and moves the cursor to
\* c + 1.
C16_BlankLine ==
    [][ (HasLine /\ \A k \in 1..Len(ThisLine) : ThisLine[k] \in {" ", "\t"}) =>
          /\ requests' = Append(requests, InsertTextRequest(currentIndex, <<"\n">>))
          /\ currentIndex' = currentIndex + 1
      ]_vars

\* a line of a space and a tab, and an empty line, between two paragraphs
C16_Witness ==
    /\ cmd = "compile" /\ pc = "done"
    /\ args.markdown = Str_blank_between
    /\ requests = <<InsertTextRequest(args.startIndex, <<"a", "\n">>),
                    InsertTextRequest(args.startIndex + 2, <<"\n">>),
                    InsertTextRequest(args.startIndex + 3, <<"\n">>),
                    InsertTextRequest(args.startIndex + 4, <<"b", "\n">>)>>

\* the line without its leading blanks
Unindented(line) ==
    LET first == {k \in 1..Len(line) : line[k] \notin {" ", "\t"}}
    IN  IF first = {} THEN <<>>
        ELSE SubSeq(line, CHOOSE k \in first : \A j \in first : k <= j, Len(line))

\* a table row, a list item, or a line holding a link or an image
IsTableRowLine(line) == Unindented(line) # <<>> /\ Head(Unindented(line)) = "|"
IsListItemLine(line) ==
    /\ Len(Unindented(line)) >= 2
    /\ Unindented(line)[1] \in {"-", "*"}
    /\ Unindented(line)[2] = " "
HoldsLink(line) ==
    \E i, j, k \in 1..Len(line) :
        /\ i < j /\ j + 1 < k
        /\ line[i] = "[" /\ line[j] = "]" /\ line[j + 1] = "(" /\ line[k] = ")"
IsUnparsedLine(line) ==
    /\ Unindented(line) # <<>> /\ Head(Unindented(line)) # "#"
    /\ IsTableRowLine(line) \/ IsListItemLine(line) \/ HoldsLink(line)

\* C17: a line holding a table row, a link, an image or a list item appends
\* one InsertText whose text is the line verbatim, every rune of it, followed
\* by a newline, and no style request.
C17_UnparsedLinesVerbatim ==
    [][ (HasLine /\ IsUnparsedLine(ThisLine)) =>
          requests' = Append(requests,
                             InsertTextRequest(currentIndex, ThisLine \o <<"\n">>))
      ]_vars

\* the occurrences of ch in the line are next to each other, so that no two
\* of them enclose anything
Contiguous(line, ch) ==
    \A i, j \in 1..Len(line) :
        (i < j /\ line[i] = ch /\ line[j] = ch) => \A k \in i..j : line[k] = ch

\* a line that is neither blank nor a heading and holds no marker pair
IsLiteralLine(rawLine) ==
    /\ TrimSpace(rawLine) # <<>> /\ Head(TrimSpace(rawLine)) # "#"
    /\ Contiguous(rawLine, "*") /\ Contiguous(rawLine, "_")

LeftToRight(reqs) ==
    \A k \in 1..(Len(reqs) - 1) : reqs[k].startIndex < reqs[k + 1].startIndex

\* C23: the requests are ordered line by line: compiling a line leaves the
\* requests of the earlier lines as they are and appends the line's InsertText
\* at the cursor, followed at once by the style requests of that line and
\* nothing else: none for a blank line, one UpdateParagraphStyle for a heading
\* line, and for a paragraph line one bold request per bold match from left to
\* right, then one italic request per italic match from left to right.
C23_LineByLineOrder ==
    [][ HasLine =>
          LET n == Len(requests)
              added == SubSeq(requests', n + 1, Len(requests'))
              styles == Tail(added)
              line == TrimSpace(ThisLine)
              nb == Len(BoldOf(line))
              ni == Len(ItalicOf(line))
          IN  /\ Len(requests') > n
              /\ SubSeq(requests', 1, n) = requests
              /\ added[1].type = "InsertText" /\ added[1].index = currentIndex
              /\ \A k \in 1..Len(styles) : styles[k].type # "InsertText"
              /\ IsBlankLine(ThisLine) => styles = <<>>
              /\ IsHeadingLine(ThisLine) =>
                    Len(styles) = 1 /\ styles[1].type = "UpdateParagraphStyle"
              /\ IsParagraphLine(ThisLine) =>
                    /\ Len(styles) = nb + ni
                    /\ \A k \in 1..Len(styles) :
                          /\ styles[k].type = "UpdateTextStyle"
                          /\ styles[k].fields = IF k <= nb THEN "bold" ELSE "italic"
                    /\ LeftToRight(SubSeq(styles, 1, nb))
                    /\ LeftToRight(SubSeq(styles, nb + 1, nb + ni))
      ]_vars

\* a line of two bold spans and an italic span between them has been compiled
C23_Witness ==
    /\ cmd = "compile" /\ pc = "done"
    /\ args.markdown = Str_bold_italic_bold
    /\ Len(requests) = 4
    /\ requests[1].type = "InsertText"
    /\ requests[2].fields = "bold" /\ requests[3].fields = "bold"
    /\ requests[2].startIndex < requests[3].startIndex
    /\ requests[4].fields = "italic"

\* C24: for every markdown text and start index the legacy compiler returns
\* normally and with the same request sequence as the current compiler.
C24_LegacyEqualsCurrent ==
    (cmd = "compile-both" /\ pc = "done")
        => (result.status = "ok" /\ result.requests = requests)

\* C25: every style request of a compiled line has a range [a, b) inside the
\* text inserted for that line: with c the index of the line's InsertText and
\* L the rune length of its text, newline included, c <= a < b <= c + L.
C25_StyleRangesInsideOwnLine ==
    JustCompiled =>
        \A k \in 1..Len(LineStyles) :
            /\ LineInsert.index <= LineStyles[k].startIndex
            /\ LineStyles[k].startIndex < LineStyles[k].endIndex
            /\ LineStyles[k].endIndex <= LineInsert.index + Len(LineInsert.text)

\* the number of newline runes of a text
NewlineCount(text) == Cardinality({k \in 1..Len(text) : text[k] = "\n"})

\* the InsertText requests of the compiled batch, in order
Inserts == SelectSeq(requests, LAMBDA r : r.type = "InsertText")

\* C29: the compiled batch holds one InsertText per line of the input split on
\* newline: k newlines in the input give k + 1 InsertText requests; each
\* inserted text ends with a newline and holds no other newline; the empty
\* input gives one InsertText of a single newline, and an input that ends in
\* a newline gives a last InsertText of a single newline.
C29_OneInsertPerLine ==
    (cmd = "compile" /\ pc = "done")
        => /\ Len(Inserts) = NewlineCount(args.markdown) + 1
           /\ \A k \in 1..Len(Inserts) :
                 LET text == Inserts[k].text
                 IN  /\ text # <<>> /\ text[Len(text)] = "\n"
                     /\ \A j \in 1..(Len(text) - 1) : text[j] # "\n"
           /\ args.markdown = <<>>
                 => requests = <<InsertTextRequest(args.startIndex, <<"\n">>)>>
           /\ (args.markdown # <<>> /\ args.markdown[Len(args.markdown)] = "\n")
                 => Inserts[Len(Inserts)].text = <<"\n">>

\* a text of one paragraph line and a final newline has been compiled into two
\* InsertText requests, the second a single newline
C29_Witness ==
    /\ cmd = "compile" /\ pc = "done"
    /\ args.markdown = <<"a", "\n">>
    /\ Len(Inserts) = 2
    /\ Inserts[1].text = <<"a", "\n">>
    /\ Inserts[2].text = <<"\n">>

(***************************************************************************)
(* Properties of the renderer (SpecRender).                                *)
(***************************************************************************)
\* the paragraphs of a document, in order
ParagraphsOf(d) ==
    LET content == d.body.content
    IN  [k \in 1..Len(content) |-> content[k].paragraph]

StyleOf(paragraph) ==
    IF paragraph.paragraphStyle = Nil THEN "" ELSE paragraph.paragraphStyle.namedStyleType

\* the heading level of a paragraph, 0 when it is no heading
LevelOf(paragraph) ==
    LET st == StyleOf(paragraph)
    IN  IF \E n \in 1..6 : st = "HEADING_" \o ToString(n)
        THEN CHOOSE n \in 1..6 : st = "HEADING_" \o ToString(n)
        ELSE 0

Unstyled(style) == style = Nil \/ (~style.bold /\ ~style.italic /\ style.link = Nil)

\* only NORMAL and HEADING_1..HEADING_6 paragraphs, made of unstyled runs
IsPlainDoc(d) ==
    /\ d.body # Nil
    /\ \A k \in 1..Len(d.body.content) :
          LET el == d.body.content[k]
          IN  /\ el.paragraph # Nil
              /\ (StyleOf(el.paragraph) \in {"", "NORMAL_TEXT"} \/ LevelOf(el.paragraph) > 0)
              /\ \A j \in 1..Len(el.paragraph.elements) :
                    LET e == el.paragraph.elements[j]
                    IN  e.textRun # Nil => Unstyled(e.textRun.textStyle)

\* what a document holds: the text and the heading level of each paragraph
DocOutline(d) ==
    [k \in 1..Len(d.body.content) |->
        [text |-> RunsText(ParagraphsOf(d)[k].elements),
         level |-> LevelOf(ParagraphsOf(d)[k])]]

StyleLevel(namedStyleType) ==
    IF \E n \in 0..9 : namedStyleType = "HEADING_" \o ToString(n)
    THEN CHOOSE n \in 0..9 : namedStyleType = "HEADING_" \o ToString(n)
    ELSE -1

RECURSIVE RequestsOutline(_)
\* what a request sequence builds: each inserted text with the level of the
\* paragraph style that follows it (0: none); a text style request shows as
\* an entry of its own
RequestsOutline(reqs) ==
    IF reqs = <<>> THEN <<>>
    ELSE IF Head(reqs).type = "InsertText"
    THEN IF Len(reqs) >= 2 /\ reqs[2].type = "UpdateParagraphStyle"
         THEN <<[text |-> Head(reqs).text, level |-> StyleLevel(reqs[2].namedStyleType)]>>
                  \o RequestsOutline(SubSeq(reqs, 3, Len(reqs)))
         ELSE <<[text |-> Head(reqs).text, level |-> 0]>> \o RequestsOutline(Tail(reqs))
    ELSE <<[text |-> <<"<style>">>, level |-> -1]>> \o RequestsOutline(Tail(reqs))

\* C5: for every document of NORMAL and HEADING_1..6 paragraphs with unstyled
\* runs, compiling the rendered markdown from index 1 yields InsertText texts
\* that are, in order, exactly the paragraph texts, and paragraph styles that
\* put exactly the heading levels on the same paragraphs, nothing added or lost.
C5_RoundTripLossless ==
    (cmd = "render" /\ pc = "compiled" /\ IsPlainDoc(doc))
        => RequestsOutline(requests) = DocOutline(doc)

BlankInsert == [text |-> <<"\n">>, level |-> 0]

\* the text of a paragraph is one line closed by a newline, with no white
\* space around it; a paragraph that is no heading is not empty, does not
\* start with '#' and holds no bold or italic span
RoundTrips(paragraph) ==
    LET whole == RunsText(paragraph.elements)
        t == SubSeq(whole, 1, Len(whole) - 1)
    IN  /\ whole # <<>> /\ whole[Len(whole)] = "\n"
        /\ \A j \in 1..Len(t) : t[j] # "\n"
        /\ TrimSpace(t) = t
        /\ LevelOf(paragraph) = 0 =>
              /\ t # <<>> /\ Head(t) # "#"
              /\ BoldOf(t) = <<>> /\ ItalicOf(t) = <<>>

\* the title is one line with no white space around it
TitleRoundTrips(title) ==
    /\ \A j \in 1..Len(title) : title[j] # "\n"
    /\ TrimSpace(title) = title

\* C5 (amended): for such a document whose title and paragraph texts are
\* single trimmed lines and whose NORMAL paragraphs are non-empty, do not
\* start with '#' and hold no marker pair, the compiled sequence first inserts
\* the title as a HEADING_1 paragraph, and what follows, leaving out the
\* InsertText requests of a single newline that carry no paragraph style (the
\* blank separator lines), reproduces in order exactly the paragraph texts and
\* heading levels.
C5_RoundTripModuloTitleAndBlanks ==
    (cmd = "render" /\ pc = "compiled" /\ IsPlainDoc(doc)
        /\ TitleRoundTrips(doc.title)
        /\ \A k \in 1..Len(doc.body.content) : RoundTrips(ParagraphsOf(doc)[k]))
        => LET outline == RequestsOutline(requests)
           IN  /\ outline # <<>>
               /\ outline[1] = [text |-> doc.title \o <<"\n">>, level |-> 1]
               /\ SelectSeq(Tail(outline), LAMBDA g : g # BlankInsert) = DocOutline(doc)

\* a heading and a normal paragraph have gone through the round trip
C5_Witness ==
    /\ cmd = "render" /\ pc = "compiled" /\ IsPlainDoc(doc)
    /\ TitleRoundTrips(doc.title) /\ doc.title # <<>>
    /\ Len(doc.body.content) = 2
    /\ \A k \in 1..2 : RoundTrips(ParagraphsOf(doc)[k])
    /\ LevelOf(ParagraphsOf(doc)[1]) = 6
    /\ LevelOf(ParagraphsOf(doc)[2]) = 0
    /\ \E p \in 1..Len(requests) :
          /\ requests[p].type = "UpdateParagraphStyle"
          /\ requests[p].namedStyleType = "HEADING_6"

\* C6: DocsToMarkdown returns a text for every document, a missing body,
\* missing styles and empty tables included, and never aborts.
C6_RenderIsTotal ==
    (cmd = "render" /\ pc # "start") => result.status = "ok"

HeadingStyles == {"HEADING_1", "HEADING_2", "HEADING_3", "HEADING_4", "HEADING_5",
                  "HEADING_6"}

\* a document of one paragraph has been rendered
RenderedOne ==
    /\ cmd = "render" /\ pc = "rendered"
    /\ Len(doc.body.content) = 1 /\ doc.body.content[1].paragraph # Nil

TheParagraph == doc.body.content[1].paragraph

\* the text runs of the rendered paragraph
TheRuns ==
    LET elements == SelectSeq(TheParagraph.elements, LAMBDA e : e.textRun # Nil)
    IN  [k \in 1..Len(elements) |-> elements[k].textRun]

TitleLine == <<"#", " ">> \o doc.title \o <<"\n", "\n">>

\* the level of the paragraph's heading style, 0 when it has none
TheLevel ==
    IF TheParagraph.paragraphStyle = Nil THEN 0
    ELSE IF TheParagraph.paragraphStyle.namedStyleType \in HeadingStyles
    THEN StyleLevel(TheParagraph.paragraphStyle.namedStyleType)
    ELSE 0

IsBold(run) == run.textStyle # Nil /\ run.textStyle.bold
IsItalic(run) == run.textStyle # Nil /\ run.textStyle.italic
IsLink(run) == run.textStyle # Nil /\ run.textStyle.link # Nil

\* the run as the wraps leave it: bold innermost, italic around it, the link
\* outermost, each around the trimmed text of what it wraps
Wrapped(run) ==
    LET t == TrimSpace(run.content)
        emphasis == IF IsBold(run) /\ IsItalic(run)
                        THEN <<"*", "*", "*">> \o t \o <<"*", "*", "*">>
                    ELSE IF IsBold(run) THEN <<"*", "*">> \o t \o <<"*", "*">>
                    ELSE IF IsItalic(run) THEN <<"*">> \o t \o <<"*">>
                    ELSE t
    IN  IF IsLink(run)
        THEN <<"[">> \o emphasis \o <<"]", "(">> \o run.textStyle.link.url \o <<")">>
        ELSE IF IsBold(run) \/ IsItalic(run) THEN emphasis
        ELSE run.content

RECURSIVE ConcatRuns(_, _)
\* the runs as wrapped, one after the other; with skipBlank the runs whose
\* trimmed text is empty are left out
ConcatRuns(runs, skipBlank) ==
    IF runs = <<>> THEN <<>>
    ELSE (IF skipBlank /\ TrimSpace(Head(runs).content) = <<>> THEN <<>>
          ELSE Wrapped(Head(runs))) \o ConcatRuns(Tail(runs), skipBlank)

NoBlanks(text) == SelectSeq(text, LAMBDA r : ~IsSpace(r))

\* C18: in a paragraph that is no heading, a run whose trimmed text is empty
\* adds nothing but white space to the output, whatever its styling: white
\* space apart, the output is that of the paragraph without those runs.
C18_BlankRunsSkipped ==
    (RenderedOne /\ TheLevel = 0)
        => NoBlanks(result.text) = NoBlanks(TitleLine \o ConcatRuns(TheRuns, TRUE))

\* C19: a paragraph of style HEADING_n renders as n '#', a space, the
\* concatenated text of all its runs and two newlines, with no marker for the
\* styling of its runs.
C19_HeadingRendersRawText ==
    (RenderedOne /\ TheLevel > 0)
        => result.text = TitleLine \o [k \in 1..TheLevel |-> "#"] \o <<" ">>
                             \o RunsText(TheParagraph.elements) \o <<"\n", "\n">>

\* C19 (amended): as C19, the concatenated text of the runs being written
\* without its leading and trailing white space, the paragraph's closing
\* newline included.
C19_HeadingRendersTrimmedText ==
    (RenderedOne /\ TheLevel > 0)
        => result.text = TitleLine \o [k \in 1..TheLevel |-> "#"] \o <<" ">>
                             \o TrimSpace(RunsText(TheParagraph.elements))
                             \o <<"\n", "\n">>

\* a HEADING_3 paragraph of a bold italic link run and a bold run was
\* rendered as plain heading text
C19_Witness ==
    /\ RenderedOne /\ TheLevel = 3
    /\ Len(TheRuns) = 2
    /\ IsBold(TheRuns[1]) /\ IsItalic(TheRuns[1]) /\ IsLink(TheRuns[1])
    /\ IsBold(TheRuns[2])
    /\ result.text = <<"#", " ", "T", "\n", "\n", "#", "#", "#", " ", "a", " ", "b",
                       "\n", "\n">>

\* C20: the runs of a paragraph that is no heading are written one after the
\* other, each wrapped in the order bold, italic, link, every wrap around the
\* trimmed text of what it wraps, and a run with no style as its raw content.
C20_WrapOrder ==
    (RenderedOne /\ TheLevel = 0 /\ TrimSpace(ConcatRuns(TheRuns, FALSE)) # <<>>)
        => result.text = TitleLine \o ConcatRuns(TheRuns, FALSE) \o <<"\n", "\n">>

\* a bold italic link run followed by a bold run has been rendered
C20_Witness ==
    /\ RenderedOne /\ TheLevel = 0
    /\ Len(TheRuns) = 2
    /\ IsBold(TheRuns[1]) /\ IsItalic(TheRuns[1]) /\ IsLink(TheRuns[1])
    /\ TheRuns[1].content = <<"a", " ">>
    /\ IsBold(TheRuns[2])
    /\ result.text = <<"#", " ", "T", "\n", "\n",
                       "[", "*", "*", "*", "a", "*", "*", "*", "]", "(", "u", ")",
                       "*", "*", "b", "*", "*", "\n", "\n">>

\* a document of one table has been rendered
RenderedTable ==
    /\ cmd = "render" /\ pc = "rendered"
    /\ Len(doc.body.content) = 1 /\ doc.body.content[1].table # Nil

TheRows == doc.body.content[1].table.tableRows

\* the table has at least one row and as many cells in every row
IsRectangular ==
    /\ Len(TheRows) >= 1
    /\ \A r \in 1..Len(TheRows) : Len(TheRows[r].tableCells) = Len(TheRows[1].tableCells)

RECURSIVE PlainCellText(_)
\* the texts of the paragraphs of a cell, each trimmed, one after the other
PlainCellText(content) ==
    IF content = <<>> THEN <<>>
    ELSE TrimSpace(RunsText(Head(content).paragraph.elements))
             \o PlainCellText(Tail(content))

RECURSIVE PipeLine(_)
\* a row as a line: a pipe, then " text |" for each of the cell texts
PipeLine(texts) ==
    IF texts = <<>> THEN <<"|">>
    ELSE PipeLine(SubSeq(texts, 1, Len(texts) - 1))
             \o <<" ">> \o texts[Len(texts)] \o <<" ", "|">>

\* the lines a table is expected to give: row 0, the separator, rows 1..R-1
ExpectedTableLines ==
    LET rowLine(r) == PipeLine([c \in 1..Len(TheRows[r].tableCells) |->
                                  TrimSpace(PlainCellText(TheRows[r].tableCells[c].content))])
        separator == PipeLine([c \in 1..Len(TheRows[1].tableCells) |-> <<"-", "-", "-">>])
    IN  <<rowLine(1), separator>> \o [r \in 1..(Len(TheRows) - 1) |-> rowLine(r + 1)]

Pipes(line) == Len(SelectSeq(line, LAMBDA r : r = "|"))

\* C21: a table of R >= 1 rows of C cells renders as exactly R + 1 non-empty
\* lines of C + 1 pipes each: row 0, one separator row right after it, then
\* rows 1..R-1 in order, every cell showing the trimmed plain text of its
\* paragraphs with no styling marker; a blank line closes the table.
C21_TableLines ==
    (RenderedTable /\ IsRectangular)
        => LET lines == SplitLines(SubSeq(result.text, Len(TitleLine) + 1, Len(result.text)))
               R == Len(TheRows)
               C == Len(TheRows[1].tableCells)
           IN  /\ SubSeq(result.text, 1, Len(TitleLine)) = TitleLine
               /\ Len(lines) = R + 3
               /\ SubSeq(lines, 1, R + 1) = ExpectedTableLines
               /\ lines[R + 2] = <<>> /\ lines[R + 3] = <<>>
               /\ \A k \in 1..(R + 1) : lines[k] # <<>> /\ Pipes(lines[k]) = C + 1
               /\ (R = 2 /\ C = 2)
                     => /\ Len(SelectSeq(lines, LAMBDA l : l # <<>>)) = 3
                        /\ \A k \in 1..3 : Pipes(lines[k]) = 3

\* a table of three rows of three cells, one of them with a styled run, one
\* without a paragraph, has been rendered
C21_Witness ==
    /\ RenderedTable /\ IsRectangular
    /\ Len(TheRows) = 3 /\ Len(TheRows[1].tableCells) = 3
    /\ result.text = TitleLine
          \o <<"|", " ", "a", "b", " ", "|", " ", " ", "|", " ", " ", "|", "\n">>
          \o <<"|", " ", "-", "-", "-", " ", "|", " ", "-", "-", "-", " ", "|",
               " ", "-", "-", "-", " ", "|", "\n">>
          \o <<"|", " ", "c", " ", "|", " ", "d", " ", "|", " ", "e", " ", "|", "\n">>
          \o <<"|", " ", "f", " ", "|", " ", "g", " ", "|", " ", "h", " ", "|", "\n">>
          \o <<"\n">>

(***************************************************************************)
(* Properties of the command handlers (SpecCli).                           *)
(***************************************************************************)
\* some heading paragraph of the document carries the name, case ignored
NameMatchesHeading(d, name) ==
    \E k \in 1..Len(d.body.content) :
        LET paragraph == d.body.content[k].paragraph
        IN  /\ paragraph # Nil
            /\ paragraph.paragraphStyle # Nil
            /\ paragraph.paragraphStyle.namedStyleType \in HeadingStyles
            /\ EqualFold(GetParagraphText(paragraph), name)

SectionCommand == cmd \in {"insert-after", "update-section"}

\* C7: when the section name matches no heading of the document, insert-after
\* and update-section end with an error, send no BatchUpdate and leave the
\* remote document as it was fetched; when the document was fetched the error
\* is "section not found: <name>".
C7_SectionNotFoundSendsNothing ==
    [][(SectionCommand /\ pc = "start" /\ ~NameMatchesHeading(doc, args.sectionName))
          => /\ result'.status = "error"
             /\ calls' = calls
             /\ doc' = doc
             /\ args.env \in {"ok", "update-fails"}
                   => result' = SectionNotFound(args.sectionName)]_vars

\* the name "int" was looked up in a document that has headings, none of them
\* equal to it, and the command ended on the not-found path
C7_Witness ==
    /\ SectionCommand /\ pc = "done"
    /\ args.sectionName = <<"i", "n", "t">>
    /\ GetStructure(doc) # <<>>
    /\ result = SectionNotFound(<<"i", "n", "t">>)
    /\ calls = <<>>

\* the value is six hexadecimal digits after one optional leading '#'
IsRGBString(color) ==
    LET hex == IF color # <<>> /\ color[1] = "#" THEN SubSeq(color, 2, Len(color))
               ELSE color
    IN  Len(hex) = 6 /\ \A k \in 1..6 : HexValue(hex[k]) >= 0

\* C8: format-text with --color, or style-table-cell with --bg-color, given a
\* value that is not a 6-hex-digit RGB string ends with an error and sends no
\* BatchUpdate.
C8_MalformedColorIsAnError ==
    (/\ cmd \in {"format-text", "style-table-cell"} /\ pc = "done"
     /\ args.color # <<>> /\ ~IsRGBString(args.color))
        => (result.status = "error" /\ calls = <<>>)

CellCommand == cmd \in {"update-table-cell", "style-table-cell"}

\* the command found its table
TableFound ==
    /\ CellArgsError = Nil
    /\ args.env # "get-fails"
    /\ FindTable(doc, ParseInt(args.tableStartIndex).value) # Nil

\* the table has a cell at (row, col)
HasCell(table, row, col) ==
    /\ 0 <= row /\ row < Len(table.tableRows)
    /\ 0 <= col /\ col < Len(table.tableRows[row + 1].tableCells)

\* C9: when the found table has no cell at (row, col), update-table-cell and
\* style-table-cell end with the bounds error, without a panic and without a
\* BatchUpdate.
C9_NoCellIsABoundsError ==
    (/\ CellCommand /\ pc = "done" /\ TableFound
     /\ ~HasCell(FindTable(doc, ParseInt(args.tableStartIndex).value),
                 ParseInt(args.row).value, ParseInt(args.col).value))
        => (result = Error("row/col out of bounds") /\ calls = <<>>)

(***************************************************************************)
(* Properties of ParseColor (SpecColor).                                   *)
(***************************************************************************)
\* C10: ParseColor returns a colour exactly when its input, after one optional
\* leading '#', is six hexadecimal digits, and then the channels are the byte
\* values of the three digit pairs.
C10_ColorIffSixHexDigits ==
    (cmd = "parse-color" /\ pc = "done")
        => LET color == args.hexColor
               hex == IF color # <<>> /\ color[1] = "#" THEN SubSeq(color, 2, Len(color))
                      ELSE color
               pair(k) == 16 * HexValue(hex[2 * k - 1]) + HexValue(hex[2 * k])
           IN  /\ (result.color # Nil) <=> IsRGBString(color)
               /\ IsRGBString(color)
                     => result.color = [red |-> pair(1), green |-> pair(2),
                                        blue |-> pair(3)]

\* the requests of the batches sent so far that carry a range
RangedRequests ==
    {r \in UNION {{calls[k][j] : j \in 1..Len(calls[k])} : k \in 1..Len(calls)} :
        "startIndex" \in DOMAIN r}

\* C11: every range in a batch built by set-markdown, update-section or
\* update-table-cell (the compiled requests included) has
\* startIndex < endIndex.
C11_NoEmptyRange ==
    (cmd \in {"set-markdown", "update-section", "update-table-cell"} /\ pc = "done")
        => \A r \in RangedRequests : r.startIndex < r.endIndex

RECURSIVE InsertedText(_)
\* the texts of the InsertText requests of a batch, concatenated in order
InsertedText(reqs) ==
    IF reqs = <<>> THEN <<>>
    ELSE (IF Head(reqs).type = "InsertText" THEN Head(reqs).text ELSE <<>>)
             \o InsertedText(Tail(reqs))

SetMarkdownSent == cmd = "set-markdown" /\ pc = "done" /\ calls # <<>>

\* C12: set-markdown sends one batch: DeleteContentRange [1, E-1) first when
\* the final endIndex E of the fetched document is greater than 2, then the
\* requests compiled from index 1.  The service applies the batch, request by
\* request in order, to the fetched body, and that leaves exactly the inserted
\* texts followed by the original final newline; every InsertText is applied
\* at 1 plus the length of the texts inserted before it.
C12_SetMarkdownReplacesBody ==
    SetMarkdownSent
        => LET batch == calls[1]
               units == BodyUnits(doc.body.content)
               E == doc.body.content[Len(doc.body.content)].endIndex
               compiled == IF E > 2 THEN Tail(batch) ELSE batch
               applied == ApplyBatch(units, batch)
           IN  /\ Len(calls) = 1
               /\ E = Len(units) + 1
               /\ E > 2 => batch # <<>> /\ batch[1] = DeleteContentRangeRequest(1, E - 1)
               /\ compiled = MarkdownToDocsRequests(args.markdown, 1)
               /\ \A k \in 1..Len(compiled) : compiled[k].type # "DeleteContentRange"
               /\ applied.ok
               /\ applied.units = InsertedText(batch) \o <<units[Len(units)]>>
               /\ \A k \in 1..Len(batch) :
                     batch[k].type = "InsertText"
                        => batch[k].index = 1 + Len(InsertedText(SubSeq(batch, 1, k - 1)))

\* the index at which the section of the heading at startIndex ends: the
\* start of the next heading, or the final newline of the body
SectionContentEnd(d, section) ==
    LET later == {t \in {GetStructure(d)[k] : k \in 1..Len(GetStructure(d))} :
                     t.startIndex > section.startIndex}
    IN  IF later = {} THEN Len(BodyUnits(d.body.content))
        ELSE (CHOOSE t \in later : \A u \in later : t.startIndex <= u.startIndex).startIndex

UpdateSectionSent == cmd = "update-section" /\ pc = "done" /\ calls # <<>>

\* C13: after the batch of update-section is applied, the units between the
\* section's heading and the next heading (or the final newline of the body)
\* are gone and the compiled text stands right after the heading: the body is
\* what preceded the end of the heading, the inserted texts, and what started
\* at the next heading.
C13_UpdateSectionReplacesContent ==
    UpdateSectionSent
        => LET units == BodyUnits(doc.body.content)
               section == FindSection(doc, args.sectionName)
               applied == ApplyBatch(units, calls[1])
           IN  /\ applied.ok
               /\ applied.units
                     = SubSeq(units, 1, section.endIndex - 1)
                         \o InsertedText(calls[1])
                         \o SubSeq(units, SectionContentEnd(doc, section), Len(units))

\* the endIndex of the final element of the fetched document
DocumentEnd(d) == d.body.content[Len(d.body.content)].endIndex

\* the requests whose indices are taken from the fetched document: the
\* DeleteContentRange and the first InsertText of the batch
BuiltFromDocument(reqs) ==
    {reqs[k] : k \in {j \in 1..Len(reqs) :
                        \/ reqs[j].type = "DeleteContentRange"
                        \/ /\ reqs[j].type = "InsertText"
                           /\ \A i \in 1..(j - 1) : reqs[i].type # "InsertText"}}

\* C26: the indices insert-after and update-section take from the fetched
\* document lie inside it: with L the endIndex of its final element, the
\* InsertText index i has 1 <= i < L and the DeleteContentRange [a, b) has
\* 1 <= a < b <= L - 1, for every matched section.
C26_SectionIndicesInsideDocument ==
    (SectionCommand /\ pc = "done" /\ calls # <<>>)
        => \A r \in BuiltFromDocument(calls[1]) :
              /\ r.type = "InsertText" => (1 <= r.index /\ r.index < DocumentEnd(doc))
              /\ r.type = "DeleteContentRange"
                    => /\ 1 <= r.startIndex /\ r.startIndex < r.endIndex
                       /\ r.endIndex <= DocumentEnd(doc) - 1

\* C27: every BatchUpdate call a command makes carries at least one request,
\* whatever the fetched document holds, add-header on a document that has a
\* header included.
C27_NoEmptyBatch ==
    \A k \in 1..Len(calls) : calls[k] # <<>>

\* C28: a command that ends with an error leaves the remote state as it was:
\* every failure comes before the first call that changes it, create with
\* --folder (a create call, then a move call) included.
C28_ErrorLeavesRemoteUnchanged ==
    [][(pc = "start" /\ result'.status = "error") => doc' = doc]_vars

\* the attributes that have a value in a text style, in the order of the mask
SetAttributes(textStyle) ==
    (IF textStyle.bold THEN <<"bold">> ELSE <<>>)
        \o (IF textStyle.italic THEN <<"italic">> ELSE <<>>)
        \o (IF textStyle.underline THEN <<"underline">> ELSE <<>>)
        \o (IF textStyle.foregroundColor # Nil THEN <<"foregroundColor">> ELSE <<>>)
        \o (IF textStyle.fontSize # Nil THEN <<"fontSize">> ELSE <<>>)

\* format-text was given no formatting flag
NoAttributeSelected ==
    ~args.bold /\ ~args.italic /\ ~args.underline /\ args.color = <<>> /\ args.size <= 0

\* C30: the field mask of the request format-text sends lists exactly the
\* attributes that have a value in its text style: bold, italic and underline
\* for the flags given, fontSize when --size is above 0, foregroundColor when
\* the style carries a colour.  With no attribute selected (and valid indices
\* and a service) the command ends with "no formatting options specified" and
\* sends nothing.
C30_FieldMaskListsWhatIsSet ==
    (cmd = "format-text" /\ pc = "done")
        => /\ calls # <<>>
                 => /\ calls[1][1].fields = JoinComma(SetAttributes(calls[1][1].textStyle))
                    /\ calls[1][1].textStyle.bold = args.bold
                    /\ calls[1][1].textStyle.italic = args.italic
                    /\ calls[1][1].textStyle.underline = args.underline
                    /\ (calls[1][1].textStyle.fontSize # Nil) = (args.size > 0)
           /\ (/\ NoAttributeSelected
               /\ ~ParseInt(args.startIndex).err /\ ~ParseInt(args.endIndex).err
               /\ args.env # "auth-fails")
                 => /\ result = Error("no formatting options specified")
                    /\ calls = <<>>

(***************************************************************************)
(* Properties of GetStructure and FindSection (SpecStructure).             *)
(***************************************************************************)
\* the titles are equal when case is ignored
SameTitle(title, name) ==
    /\ Len(title) = Len(name)
    /\ \A k \in 1..Len(title) : Fold(title[k]) = Fold(name[k])

FoundSection == cmd = "find-section" /\ pc = "done"

\* C14: FindSection returns the first section of GetStructure, in document
\* order, whose whole title equals the name when case is ignored, and nil when
\* there is none; with headings "Intro" and "intro details" the name "INTRO"
\* gives the "Intro" section, and of two headings of equal title the earlier.
C14_FindSectionFirstExactMatch ==
    FoundSection
        => LET sections == GetStructure(doc)
               hits == {k \in 1..Len(sections) : SameTitle(sections[k].title, args.sectionName)}
           IN  /\ hits = {} => result.section = Nil
               /\ hits # {} =>
                     \E k \in hits : /\ \A j \in hits : k <= j
                                     /\ result.section = sections[k]
               /\ (/\ args.sectionName = Str_INTRO
                   /\ Len(sections) >= 2
                   /\ sections[1].title = Str_Intro /\ sections[1].level = 1
                   /\ sections[2].title = Str_intro_details /\ sections[2].level = 2)
                     => result.section = sections[1]

\* "INTRO" was looked up among the headings "Intro", "intro details" and
\* "INTRO", and the first of the two that match was returned
C14_Witness ==
    /\ FoundSection /\ args.sectionName = Str_INTRO
    /\ Len(GetStructure(doc)) = 3
    /\ GetStructure(doc)[1].title = Str_Intro
    /\ GetStructure(doc)[2].title = Str_intro_details
    /\ GetStructure(doc)[3].title = Str_INTRO
    /\ result.section = GetStructure(doc)[1]

RECURSIVE ExpectedSections(_, _)
\* one section per top-level heading paragraph, in order: the level of its
\* style, the indices of the element, and as title the text of its runs,
\* trimmed or as it is
ExpectedSections(content, trimmed) ==
    IF content = <<>> THEN <<>>
    ELSE LET element == Head(content)
             heading == /\ element.paragraph # Nil
                        /\ element.paragraph.paragraphStyle # Nil
                        /\ element.paragraph.paragraphStyle.namedStyleType \in HeadingStyles
             text == RunsText(element.paragraph.elements)
         IN  (IF heading
              THEN <<[endIndex |-> element.endIndex,
                      level |-> StyleLevel(element.paragraph.paragraphStyle.namedStyleType),
                      startIndex |-> element.startIndex,
                      title |-> IF trimmed THEN TrimSpace(text) ELSE text]>>
              ELSE <<>>) \o ExpectedSections(Tail(content), trimmed)

GotStructure == cmd = "get-structure" /\ pc = "done" /\ result.status = "ok"

\* C15: GetStructure returns exactly one Section per top-level paragraph of
\* style HEADING_n, in document order: level n, the indices of the paragraph
\* element, and as title the concatenated text of the paragraph's runs.
C15_SectionsOfHeadings ==
    GotStructure => result.sections = ExpectedSections(doc.body.content, FALSE)

\* C15 (amended): as C15, with the title being the concatenated text of the
\* runs with leading and trailing white space, the closing newline included,
\* removed.
C15_SectionsOfHeadingsTrimmed ==
    GotStructure => result.sections = ExpectedSections(doc.body.content, TRUE)

\* the structure of a document with a table holding a heading, a heading of
\* several runs and a heading with spaces around its text
C15_Witness ==
    /\ GotStructure
    /\ \E k \in 1..Len(doc.body.content) : doc.body.content[k].table # Nil
    /\ Len(result.sections) = 2
    /\ result.sections[1] = Section(20, 3, 14, Str_Intro)
    /\ result.sections[2].level = 5
    /\ result.sections[2].title = Str_Intro

====
